---------------------------- MODULE Spec2Model ----------------------------
(***************************************************************************)
(* Model of the DSP core of fmus-embed: the filter family                  *)
(* (src/src/dsp/filter.cpp), the streaming filter chain RealTimeProcessor  *)
(* (src/src/dsp/dsp.cpp) and the FFT engine (src/src/dsp/fft.cpp).         *)
(*                                                                         *)
(* Samples of type T are modelled in exact arithmetic: a sample is a       *)
(* rational <<n, d>> in lowest terms with d > 0.                           *)
(***************************************************************************)
EXTENDS Integers, Sequences, FiniteSets, TLC

VARIABLES
    flt,        \* the filter object under study (SpecFilter)
    fHist,      \* samples it processed since construction or the last reset
    fOuts,      \* the outputs it returned for them
    fPrevHist,  \* samples processed in the run that the last reset() ended
    fWasReset,  \* whether reset() was ever called on it
    fCtor,      \* the constructor call that builds a filter with its parameters
    pool,       \* the filter objects that shared_ptrs refer to (SpecChain)
    m_filters,  \* RealTimeProcessor::m_filters, a sequence of references
    m_latency,  \* RealTimeProcessor::m_latency
    cCount,     \* samples fed to filters of the pool so far
    cLast,      \* the last call if it processed, reset or failed: [op, arg, ok, val]
    fftCall,    \* the last call of an FFT entry point (SpecFFT)
    saCall,     \* the last call of a SpectralAnalysis function (SpecSpectral)
    rt,         \* a RealTimeFFT object and the record of its stream (SpecStream)
    bt,         \* a filter and the batch calls made on it (SpecBatch)
    dspCall,    \* the last call of a free function of dsp.cpp (SpecDsp)
    procFilters,\* m_filters of each RealTimeProcessor (SpecThreads)
    mutexOwner, \* the thread holding each processor's mutex, 0 if free
    thread      \* each thread's position in the call it is making

filterVars == <<flt, fHist, fOuts, fPrevHist, fWasReset, fCtor>>

chainVars == <<pool, m_filters, m_latency, cCount, cLast>>

fftVars == <<fftCall>>

spectralVars == <<saCall>>

streamVars == <<rt>>

dspVars == <<dspCall>>

threadVars == <<procFilters, mutexOwner, thread>>

batchVars == <<bt>>

vars == <<filterVars, chainVars, fftVars, spectralVars, streamVars, dspVars,
          threadVars, batchVars>>

-----------------------------------------------------------------------------
(* Bounds of the model *)

\* samples one filter instance processes between two resets
MaxSamples == 4
\* largest window size of a MovingAverageFilter / MedianFilter
MaxWindow == 3
\* length of the vector given to a batch call
MaxBatch == 2
\* samples fed to the filters of a chain's pool
MaxChainSamples == 2
\* length of the signal given to an FFT entry point
MaxFFTLen == 4
\* sizes handed to isValidSize and nextPowerOf2
MaxSize == 1024
\* bins of the FFTResults handed to SpectralAnalysis
MaxBins == 5
\* samples delivered to a RealTimeFFT, in all and per processSamples call
MaxStream == 6
MaxStreamBatch == 3
\* longest signal handed to the correlation functions
MaxCorrLen == 3
\* calls each thread makes on RealTimeProcessors
MaxThreadCalls == 2
\* process calls made on the filter of SpecBatch
MaxBatchCalls == 2
\* setAlpha calls made on the filter of SpecAlpha
MaxSetAlpha == 2

-----------------------------------------------------------------------------
(* Exact arithmetic on type T *)

Abs(n) == IF n < 0 THEN -n ELSE n

Min(a, b) == IF a < b THEN a ELSE b

RECURSIVE GCD(_, _)
GCD(a, b) == IF b = 0 THEN a ELSE GCD(b, a % b)

Norm(n, d) ==
    LET g == GCD(Abs(n), d)
    IN  IF n = 0 THEN <<0, 1>> ELSE <<n \div g, d \div g>>

QInt(n) == <<n, 1>>

QAdd(a, b) ==
    LET l == (a[2] \div GCD(a[2], b[2])) * b[2]
    IN  Norm(a[1] * (l \div a[2]) + b[1] * (l \div b[2]), l)

QNeg(a) == <<-a[1], a[2]>>

QSub(a, b) == QAdd(a, QNeg(b))

QMul(a, b) ==
    LET g1 == GCD(Abs(a[1]), b[2])
        g2 == GCD(Abs(b[1]), a[2])
    IN  IF a[1] = 0 \/ b[1] = 0 THEN <<0, 1>>
        ELSE <<(a[1] \div g1) * (b[1] \div g2), (a[2] \div g2) * (b[2] \div g1)>>

\* b # 0
QDiv(a, b) ==
    IF b[1] > 0 THEN QMul(a, <<b[2], b[1]>>) ELSE QMul(a, <<-b[2], -b[1]>>)

QLess(a, b) == a[1] * b[2] < b[1] * a[2]

QLeq(a, b) == a[1] * b[2] <= b[1] * a[2]

\* std::abs on T
QAbs(a) == <<Abs(a[1]), a[2]>>

\* std::clamp(v, lo, hi)
Clamp(v, lo, hi) == IF QLess(v, lo) THEN lo ELSE IF QLess(hi, v) THEN hi ELSE v

RECURSIVE QSum(_)
QSum(s) == IF s = <<>> THEN QInt(0) ELSE QAdd(s[1], QSum(Tail(s)))

\* std::vector<T>(n, 0)
Zeros(n) == [i \in 1..n |-> QInt(0)]

\* std::sort on a vector of T
RECURSIVE Insert(_, _)
Insert(x, s) ==
    IF s = <<>> THEN <<x>>
    ELSE IF QLeq(x, s[1]) THEN <<x>> \o s
    ELSE <<s[1]>> \o Insert(x, Tail(s))

RECURSIVE Sort(_)
Sort(s) == IF s = <<>> THEN <<>> ELSE Insert(s[1], Sort(Tail(s)))

AlphaMin == <<1, 1000>>
AlphaMax == <<999, 1000>>

-----------------------------------------------------------------------------
(* LowPassFilter *)

\* LowPassFilter(T alpha)
LowPassFilter(alpha) ==
    [kind |-> "LowPass",
     alpha |-> IF QLeq(alpha, QInt(0)) \/ QLeq(QInt(1), alpha)
               THEN Clamp(alpha, AlphaMin, AlphaMax) ELSE alpha,
     prevOut |-> QInt(0),
     order |-> 1]

\* LowPassFilter(T cutoffFreq, uint32_t order); the cutoff is given by its decay
\* e = exp(-2*pi*cutoffFreq), so that alpha = 1 - e is a rational
LowPassFilterCutoff(decay, order) ==
    [kind |-> "LowPass",
     alpha |-> Clamp(QSub(QInt(1), decay), AlphaMin, AlphaMax),
     prevOut |-> QInt(0),
     order |-> order]

\* void setAlpha(T alpha)
LowPassSetAlpha(f, alpha) == [f EXCEPT !.alpha = Clamp(alpha, AlphaMin, AlphaMax)]

\* T getAlpha() const
LowPassGetAlpha(f) == f.alpha
LowPassProcess(f, x) ==
    LET y == QAdd(QMul(f.alpha, x), QMul(QSub(QInt(1), f.alpha), f.prevOut))
    IN  [f |-> [f EXCEPT !.prevOut = y], out |-> y]

LowPassReset(f) == [f EXCEPT !.prevOut = QInt(0)]

-----------------------------------------------------------------------------
(* HighPassFilter *)

HighPassFilter(alpha) ==
    [kind |-> "HighPass",
     alpha |-> IF QLeq(alpha, QInt(0)) \/ QLeq(QInt(1), alpha)
               THEN Clamp(alpha, AlphaMin, AlphaMax) ELSE alpha,
     prevIn |-> QInt(0),
     prevOut |-> QInt(0),
     order |-> 1]

HighPassFilterCutoff(decay, order) ==
    [kind |-> "HighPass",
     alpha |-> Clamp(QSub(QInt(1), decay), AlphaMin, AlphaMax),
     prevIn |-> QInt(0),
     prevOut |-> QInt(0),
     order |-> order]

HighPassProcess(f, x) ==
    LET y == QMul(f.alpha, QSub(QAdd(f.prevOut, x), f.prevIn))
    IN  [f |-> [f EXCEPT !.prevOut = y, !.prevIn = x], out |-> y]

HighPassReset(f) == [f EXCEPT !.prevIn = QInt(0), !.prevOut = QInt(0)]

-----------------------------------------------------------------------------
(* BandPassFilter: cutoffs are given by their decays exp(-2*pi*cutoff), so *)
(* lowCutoff >= highCutoff iff decay(low) <= decay(high)                   *)

\* the constructor without the swap of cutoffs given in the wrong order
BandPassFilterNoSwap(lowDecay, highDecay, order) ==
    [kind |-> "BandPass",
     lowCutoff |-> lowDecay,
     highCutoff |-> highDecay,
     order |-> order,
     highPass |-> HighPassFilterCutoff(lowDecay, order \div 2),
     lowPass |-> LowPassFilterCutoff(highDecay, order \div 2)]
BandPassFilter(lowDecay, highDecay, order) ==
    LET swap == QLeq(lowDecay, highDecay)
        lo == IF swap THEN highDecay ELSE lowDecay
        hi == IF swap THEN lowDecay ELSE highDecay
    IN  [kind |-> "BandPass",
         lowCutoff |-> lo,
         highCutoff |-> hi,
         order |-> order,
         highPass |-> HighPassFilterCutoff(lo, order \div 2),
         lowPass |-> LowPassFilterCutoff(hi, order \div 2)]

BandPassProcess(f, x) ==
    LET h == HighPassProcess(f.highPass, x)
        l == LowPassProcess(f.lowPass, h.out)
    IN  [f |-> [f EXCEPT !.highPass = h.f, !.lowPass = l.f], out |-> l.out]

BandPassReset(f) ==
    [f EXCEPT !.highPass = HighPassReset(f.highPass),
              !.lowPass = LowPassReset(f.lowPass)]

-----------------------------------------------------------------------------
(* MovingAverageFilter; m_index is 0-based, m_buffer[i] is buffer[i + 1] *)

\* the constructor without the coercion of a zero window size
MovingAverageFilterNoCoercion(windowSize) ==
    [kind |-> "MovingAverage",
     windowSize |-> windowSize,
     buffer |-> Zeros(windowSize),
     index |-> 0,
     sum |-> QInt(0),
     bufferFull |-> FALSE]

MovingAverageFilter(windowSize) ==
    LET w == IF windowSize = 0 THEN 1 ELSE windowSize
    IN  [kind |-> "MovingAverage",
         windowSize |-> w,
         buffer |-> Zeros(w),
         index |-> 0,
         sum |-> QInt(0),
         bufferFull |-> FALSE]

\* the eviction slip: the overwritten sample stays in the running sum
MovingAverageProcessNoEvict(f, x) ==
    LET sum == QAdd(f.sum, x)
        index == (f.index + 1) % f.windowSize
        full == f.bufferFull \/ index = 0
        divisor == IF full THEN f.windowSize
                   ELSE IF index = 0 THEN f.windowSize ELSE index
    IN  [f |-> [f EXCEPT !.sum = sum,
                         !.buffer = [f.buffer EXCEPT ![f.index + 1] = x],
                         !.index = index,
                         !.bufferFull = full],
         out |-> QDiv(sum, QInt(divisor))]

\* the ramp-up slip: dividing by the window size from the first sample on
MovingAverageProcessFullDivisor(f, x) ==
    LET sum == QAdd(QSub(f.sum, f.buffer[f.index + 1]), x)
        index == (f.index + 1) % f.windowSize
    IN  [f |-> [f EXCEPT !.sum = sum,
                         !.buffer = [f.buffer EXCEPT ![f.index + 1] = x],
                         !.index = index,
                         !.bufferFull = f.bufferFull \/ index = 0],
         out |-> QDiv(sum, QInt(f.windowSize))]

MovingAverageProcess(f, x) ==
    LET sum == QAdd(QSub(f.sum, f.buffer[f.index + 1]), x)
        index == (f.index + 1) % f.windowSize
        full == f.bufferFull \/ index = 0
        divisor == IF full THEN f.windowSize
                   ELSE IF index = 0 THEN f.windowSize ELSE index
    IN  [f |-> [f EXCEPT !.sum = sum,
                         !.buffer = [f.buffer EXCEPT ![f.index + 1] = x],
                         !.index = index,
                         !.bufferFull = full],
         out |-> QDiv(sum, QInt(divisor))]

\* a reset that zeroes the slots and leaves the running sum as it was
MovingAverageResetKeepsSum(f) ==
    [f EXCEPT !.buffer = Zeros(Len(f.buffer)),
              !.index = 0,
              !.bufferFull = FALSE]
MovingAverageReset(f) ==
    [f EXCEPT !.buffer = Zeros(Len(f.buffer)),
              !.index = 0,
              !.sum = QInt(0),
              !.bufferFull = FALSE]

\* m_buffer.resize(n, 0): keeps the first n elements, pads with 0
Resize(buffer, n) ==
    [i \in 1..n |-> IF i <= Len(buffer) THEN buffer[i] ELSE QInt(0)]

MovingAverageSetWindowSize(f, windowSize) ==
    IF windowSize = 0 THEN f
    ELSE MovingAverageReset([f EXCEPT !.windowSize = windowSize,
                                      !.buffer = Resize(f.buffer, windowSize)])

-----------------------------------------------------------------------------
(* MedianFilter *)

MedianFilter(windowSize) ==
    LET w == IF windowSize = 0 THEN 1 ELSE windowSize
    IN  [kind |-> "Median",
         windowSize |-> w,
         buffer |-> Zeros(w),
         index |-> 0,
         bufferFull |-> FALSE]

\* the ramp-up slip: sorting the whole buffer, unwritten slots included
CalculateMedianAllSlots(f) ==
    LET sortBuffer == Sort(f.buffer)
        size == Len(sortBuffer)
    IN  IF size % 2 = 0
        THEN QDiv(QAdd(sortBuffer[size \div 2], sortBuffer[size \div 2 + 1]),
                  QInt(2))
        ELSE sortBuffer[size \div 2 + 1]

CalculateMedian(f) ==
    LET sortBuffer == Sort(IF f.bufferFull THEN f.buffer
                           ELSE SubSeq(f.buffer, 1, f.index))
        size == Len(sortBuffer)
    IN  IF size = 0 THEN QInt(0)
        ELSE IF size % 2 = 0
             THEN QDiv(QAdd(sortBuffer[size \div 2], sortBuffer[size \div 2 + 1]),
                       QInt(2))
             ELSE sortBuffer[size \div 2 + 1]

MedianProcess(f, x) ==
    LET index == (f.index + 1) % f.windowSize
        g == [f EXCEPT !.buffer = [f.buffer EXCEPT ![f.index + 1] = x],
                       !.index = index,
                       !.bufferFull = f.bufferFull \/ index = 0]
    IN  [f |-> g, out |-> CalculateMedian(g)]

\* a reset that leaves m_bufferFull set
MedianResetKeepsFull(f) ==
    [f EXCEPT !.buffer = Zeros(Len(f.buffer)), !.index = 0]

MedianReset(f) ==
    [f EXCEPT !.buffer = Zeros(Len(f.buffer)),
              !.index = 0,
              !.bufferFull = FALSE]

-----------------------------------------------------------------------------
(* KalmanFilter *)

KalmanFilter(processNoise, measurementNoise, initialEstimate, initialCovariance) ==
    [kind |-> "Kalman",
     processNoise |-> processNoise,
     measurementNoise |-> measurementNoise,
     estimate |-> initialEstimate,
     covariance |-> initialCovariance,
     initialEstimate |-> initialEstimate,
     initialCovariance |-> initialCovariance]

\* the sign slip in the prediction step: P = P - Q
KalmanUpdateNoiseSubtracted(f, measurement) ==
    LET p == QSub(f.covariance, f.processNoise)
        gain == QDiv(p, QAdd(p, f.measurementNoise))
        est == QAdd(f.estimate, QMul(gain, QSub(measurement, f.estimate)))
        cov == QMul(QSub(QInt(1), gain), p)
    IN  [f |-> [f EXCEPT !.estimate = est, !.covariance = cov], out |-> est]

\* the sign slip in the innovation: z + x instead of z - x
KalmanUpdateInnovationSum(f, measurement) ==
    LET p == QAdd(f.covariance, f.processNoise)
        gain == QDiv(p, QAdd(p, f.measurementNoise))
        est == QAdd(f.estimate, QMul(gain, QAdd(measurement, f.estimate)))
        cov == QMul(QSub(QInt(1), gain), p)
    IN  [f |-> [f EXCEPT !.estimate = est, !.covariance = cov], out |-> est]

\* the posterior covariance left at the predicted one
KalmanUpdateKeepsPredicted(f, measurement) ==
    LET p == QAdd(f.covariance, f.processNoise)
        gain == QDiv(p, QAdd(p, f.measurementNoise))
        est == QAdd(f.estimate, QMul(gain, QSub(measurement, f.estimate)))
    IN  [f |-> [f EXCEPT !.estimate = est, !.covariance = p], out |-> est]

KalmanUpdate(f, measurement) ==
    LET p == QAdd(f.covariance, f.processNoise)
        gain == QDiv(p, QAdd(p, f.measurementNoise))
        est == QAdd(f.estimate, QMul(gain, QSub(measurement, f.estimate)))
        cov == QMul(QSub(QInt(1), gain), p)
    IN  [f |-> [f EXCEPT !.estimate = est, !.covariance = cov], out |-> est]

\* KalmanFilter::predict returns the estimate and changes nothing
KalmanPredict(f) == [f |-> f, out |-> f.estimate]

KalmanReset(f) ==
    [f EXCEPT !.estimate = f.initialEstimate, !.covariance = f.initialCovariance]

-----------------------------------------------------------------------------
(* The common interface: virtual dispatch on the filter's class *)

\* T process(T input); KalmanFilter, not a Filter subclass, has update()
Process(f, x) ==
    CASE f.kind = "LowPass" -> LowPassProcess(f, x)
      [] f.kind = "HighPass" -> HighPassProcess(f, x)
      [] f.kind = "BandPass" -> BandPassProcess(f, x)
      [] f.kind = "MovingAverage" -> MovingAverageProcess(f, x)
      [] f.kind = "Median" -> MedianProcess(f, x)
      [] f.kind = "Kalman" -> KalmanUpdate(f, x)

FilterReset(f) ==
    CASE f.kind = "LowPass" -> LowPassReset(f)
      [] f.kind = "HighPass" -> HighPassReset(f)
      [] f.kind = "BandPass" -> BandPassReset(f)
      [] f.kind = "MovingAverage" -> MovingAverageReset(f)
      [] f.kind = "Median" -> MedianReset(f)
      [] f.kind = "Kalman" -> KalmanReset(f)

GetOrder(f) ==
    CASE f.kind \in {"LowPass", "HighPass", "BandPass"} -> f.order
      [] f.kind \in {"MovingAverage", "Median"} -> f.windowSize

\* a batch loop that maps every sample from the state the call started in
RECURSIVE ProcessLoopStateless(_, _, _)
ProcessLoopStateless(f, input, acc) ==
    IF input = <<>> THEN [f |-> f, out |-> acc]
    ELSE IF Len(input) = 1
         THEN LET r == Process(f, input[1])
              IN  [f |-> r.f, out |-> Append(acc, r.out)]
         ELSE ProcessLoopStateless(f, Tail(input),
                                   Append(acc, Process(f, input[1]).out))

\* std::vector<T> process(const std::vector<T>& input): the loop that pushes
\* process(sample) for each sample; acc is the output vector built so far
RECURSIVE ProcessLoop(_, _, _)
ProcessLoop(f, input, acc) ==
    IF input = <<>> THEN [f |-> f, out |-> acc]
    ELSE LET r == Process(f, input[1])
         IN  ProcessLoop(r.f, Tail(input), Append(acc, r.out))

ProcessBatch(f, input) == ProcessLoop(f, input, <<>>)

-----------------------------------------------------------------------------
(* RealTimeProcessor: p is the heap of filter objects, chain the sequence  *)
(* of references m_filters                                                 *)

\* T processSample(T input): the loop over m_filters
RECURSIVE ProcessSample(_, _, _)
ProcessSample(p, chain, input) ==
    IF chain = <<>> THEN [pool |-> p, out |-> input]
    ELSE LET r == Process(p[chain[1]], input)
         IN  ProcessSample([p EXCEPT ![chain[1]] = r.f], Tail(chain), r.out)

\* a batch loop that maps every sample from the state the call started in
RECURSIVE BufferLoopStateless(_, _, _, _)
BufferLoopStateless(p, chain, input, acc) ==
    IF input = <<>> THEN [pool |-> p, out |-> acc]
    ELSE IF Len(input) = 1
         THEN LET r == ProcessSample(p, chain, input[1])
              IN  [pool |-> r.pool, out |-> Append(acc, r.out)]
         ELSE BufferLoopStateless(p, chain, Tail(input),
                                  Append(acc, ProcessSample(p, chain, input[1]).out))

\* std::vector<T> processBuffer(const std::vector<T>& input): the loop that
\* pushes processSample(sample); acc is the output vector built so far
RECURSIVE BufferLoop(_, _, _, _)
BufferLoop(p, chain, input, acc) ==
    IF input = <<>> THEN [pool |-> p, out |-> acc]
    ELSE LET r == ProcessSample(p, chain, input[1])
         IN  BufferLoop(r.pool, chain, Tail(input), Append(acc, r.out))

ProcessBuffer(p, chain, input) == BufferLoop(p, chain, input, <<>>)

\* a reset that stops after the first filter of the chain
ResetAllFirstOnly(p, chain) ==
    IF chain = <<>> THEN p
    ELSE [p EXCEPT ![chain[1]] = FilterReset(p[chain[1]])]

\* void RealTimeProcessor::reset(): the loop over m_filters
RECURSIVE ResetAll(_, _)
ResetAll(p, chain) ==
    IF chain = <<>> THEN p
    ELSE ResetAll([p EXCEPT ![chain[1]] = FilterReset(p[chain[1]])], Tail(chain))

-----------------------------------------------------------------------------
(* uint32_t as a vector of 32 bits, bit 0 the least significant *)

BitIndex == 0..31

\* the bits of n, 0 <= n < 2^31
U32(n) == [i \in BitIndex |-> IF i = 31 THEN 0 ELSE (n \div 2^i) % 2]

U32Zero == [i \in BitIndex |-> 0]

RECURSIVE U32ValFrom(_, _)
U32ValFrom(b, i) == IF i > 30 THEN 0 ELSE b[i] * 2^i + U32ValFrom(b, i + 1)

\* the number a bit vector below 2^31 stands for
U32Val(b) == U32ValFrom(b, 0)

LowestBit(b, v) == CHOOSE i \in BitIndex : b[i] = v /\ \A j \in 0..(i - 1) : b[j] # v

\* n - 1 modulo 2^32
U32Dec(b) ==
    IF b = U32Zero THEN [i \in BitIndex |-> 1]
    ELSE LET k == LowestBit(b, 1)
         IN  [i \in BitIndex |-> IF i < k THEN 1 ELSE IF i = k THEN 0 ELSE b[i]]

\* n + 1 modulo 2^32
U32Inc(b) ==
    IF b = [i \in BitIndex |-> 1] THEN U32Zero
    ELSE LET k == LowestBit(b, 0)
         IN  [i \in BitIndex |-> IF i < k THEN 0 ELSE IF i = k THEN 1 ELSE b[i]]

\* n | (n >> s)
U32OrShr(b, s) ==
    [i \in BitIndex |-> IF b[i] = 1 \/ (i + s <= 31 /\ b[i + s] = 1) THEN 1 ELSE 0]

\* a & b
U32And(a, b) == [i \in BitIndex |-> a[i] * b[i]]

\* bool FFT::isValidSize(uint32_t size)
IsValidSizeBits(b) == b # U32Zero /\ U32And(b, U32Dec(b)) = U32Zero

IsValidSize(size) == IsValidSizeBits(U32(size))

\* the rounding without the leading n--
NextPowerOf2BitsNoDecrement(b) ==
    IF b = U32Zero THEN U32(1)
    ELSE U32Inc(U32OrShr(U32OrShr(U32OrShr(U32OrShr(U32OrShr(
             b, 1), 2), 4), 8), 16))

\* uint32_t FFT::nextPowerOf2(uint32_t n)
NextPowerOf2Bits(b) ==
    IF b = U32Zero THEN U32(1)
    ELSE U32Inc(U32OrShr(U32OrShr(U32OrShr(U32OrShr(U32OrShr(
             U32Dec(b), 1), 2), 4), 8), 16))

NextPowerOf2(n) == U32Val(NextPowerOf2Bits(U32(n)))

-----------------------------------------------------------------------------
(* std::complex<T> in exact arithmetic.  With z = exp(-2*pi*i/FieldOrder)   *)
(* and H = FieldOrder/2, a number is [c |-> <<a_0, ..., a_(H-1)>>, d |-> d] *)
(* and stands for (a_0 + a_1*z + ... + a_(H-1)*z^(H-1)) / d, where z^H = -1;*)
(* the a_k and d > 0 are integers without a common factor.  Every twiddle   *)
(* factor of a transform of length up to FieldOrder is a power of z.        *)

FieldOrder == IF NextPowerOf2(MaxFFTLen) < 8 THEN 8 ELSE NextPowerOf2(MaxFFTLen)

H == FieldOrder \div 2

RECURSIVE GCDAll(_, _)
GCDAll(c, g) == IF c = <<>> THEN g ELSE GCDAll(Tail(c), GCD(Abs(c[1]), g))

CNorm(c, d) ==
    LET g == GCDAll(c, d)
    IN  [c |-> [k \in 1..H |-> c[k] \div g], d |-> d \div g]

\* z^k, 0 <= k < FieldOrder
Unit(k) ==
    [c |-> [j \in 1..H |-> IF j - 1 = k % H THEN (IF k < H THEN 1 ELSE -1) ELSE 0],
     d |-> 1]

\* std::complex<T>(re, 0) for a rational re
Complex(re) == [c |-> [j \in 1..H |-> IF j = 1 THEN re[1] ELSE 0], d |-> re[2]]

CZero == Complex(QInt(0))

COne == Complex(QInt(1))

\* the imaginary unit, exp(+2*pi*i/4)
CI == Unit(3 * (FieldOrder \div 4))

CAdd(x, y) ==
    LET l == (x.d \div GCD(x.d, y.d)) * y.d
    IN  CNorm([k \in 1..H |-> x.c[k] * (l \div x.d) + y.c[k] * (l \div y.d)], l)

CNeg(x) == [c |-> [k \in 1..H |-> -x.c[k]], d |-> x.d]

CSub(x, y) == CAdd(x, CNeg(y))

RECURSIVE ConvSum(_, _, _, _)
\* the coefficient of z^(k-1) in x*y: the sum over i of x_i*y_j with
\* i + j = k - 1 (sign +) or i + j = k - 1 + H (sign -, as z^H = -1)
ConvSum(x, y, k, i) ==
    IF i > H THEN 0
    ELSE LET j == k - i + 1
         IN  (IF j >= 1 THEN x[i] * y[j] ELSE -(x[i] * y[j + H]))
             + ConvSum(x, y, k, i + 1)

CMul(x, y) == CNorm([k \in 1..H |-> ConvSum(x.c, y.c, k, 1)], x.d * y.d)

\* the complex conjugate: conj(z^k) = z^(-k) = -z^(H-k)
Conj(x) ==
    [c |-> [k \in 1..H |-> IF k = 1 THEN x.c[1] ELSE -x.c[H - k + 2]], d |-> x.d]

\* sample.real(): a real number, kept as a number of the same field
Real(x) == CMul(CAdd(x, Conj(x)), Complex(<<1, 2>>))

-----------------------------------------------------------------------------
(* FFT engine; data[i] of the code is data[i + 1] here *)

\* std::vector<T> FFT::zeroPad(signal, targetSize): resize(targetSize, 0)
ZeroPad(signal, targetSize) ==
    [i \in 1..targetSize |-> IF i <= Len(signal) THEN signal[i] ELSE QInt(0)]

\* paddedInput.resize(fftSize, std::complex<T>(0, 0))
ZeroPadComplex(signal, targetSize) ==
    [i \in 1..targetSize |-> IF i <= Len(signal) THEN signal[i] ELSE CZero]

\* the while loop of bitReverse and the j ^= bit after it
RECURSIVE ReverseIncrement(_, _)
ReverseIncrement(j, bit) ==
    IF bit > 0 /\ (j \div bit) % 2 = 1 THEN ReverseIncrement(j - bit, bit \div 2)
    ELSE j + bit

Swap(data, i, j) == [data EXCEPT ![i + 1] = data[j + 1], ![j + 1] = data[i + 1]]

\* the for loop of bitReverse, at index i with j as the iteration before left it
RECURSIVE BitReverseLoop(_, _, _)
BitReverseLoop(data, i, j) ==
    LET n == Len(data)
        j2 == ReverseIncrement(j, n \div 2)
    IN  IF i >= n THEN data
        ELSE BitReverseLoop(IF i < j2 THEN Swap(data, i, j2) ELSE data, i + 1, j2)

\* a transform that leaves out the bit-reverse permutation
BitReverseSkipped(data) == data

\* void FFT::bitReverse(std::vector<std::complex<T>>& data)
BitReverse(data) == BitReverseLoop(data, 1, 0)

\* a twiddle factor that takes the forward angle whatever the direction
TwiddleForwardOnly(len, inverse) == Unit(FieldOrder \div len)
\* std::complex<T> wlen(cos(angle), sin(angle)), angle = (inverse ? 2 : -2)*pi/len
Twiddle(len, inverse) ==
    IF inverse THEN Unit((FieldOrder - FieldOrder \div len) % FieldOrder)
    ELSE Unit(FieldOrder \div len)

\* for (j = 0; j < len / 2; ++j)
RECURSIVE ButterflyLoop(_, _, _, _, _, _)
ButterflyLoop(data, i, j, len, w, wlen) ==
    IF j >= len \div 2 THEN data
    ELSE LET u == data[i + j + 1]
             v == CMul(data[i + j + len \div 2 + 1], w)
         IN  ButterflyLoop([data EXCEPT ![i + j + 1] = CAdd(u, v),
                                        ![i + j + len \div 2 + 1] = CSub(u, v)],
                           i, j + 1, len, CMul(w, wlen), wlen)

\* for (i = 0; i < n; i += len)
RECURSIVE BlockLoop(_, _, _, _)
BlockLoop(data, i, len, wlen) ==
    IF i >= Len(data) THEN data
    ELSE BlockLoop(ButterflyLoop(data, i, 0, len, COne, wlen), i + len, len, wlen)

\* for (len = 2; len <= n; len <<= 1)
RECURSIVE StageLoop(_, _, _)
StageLoop(data, len, inverse) ==
    IF len > Len(data) THEN data
    ELSE StageLoop(BlockLoop(data, 0, len, Twiddle(len, inverse)), 2 * len, inverse)

\* an inverse transform that leaves out the final 1/n scale
Radix2FFTNoScale(data, inverse) ==
    IF ~IsValidSize(Len(data)) THEN data
    ELSE StageLoop(BitReverse(data), 2, inverse)

\* void FFT::radix2FFT(std::vector<std::complex<T>>& data, bool inverse): a
\* size that is no power of two is logged and the data left as it is
Radix2FFT(data, inverse) ==
    IF ~IsValidSize(Len(data)) THEN data
    ELSE LET out == StageLoop(BitReverse(data), 2, inverse)
             scale == Complex(<<1, Len(data)>>)
         IN  IF inverse THEN [k \in 1..Len(out) |-> CMul(out[k], scale)] ELSE out

Ok(val) == [ok |-> TRUE, val |-> val]

Error(code) == [ok |-> FALSE, code |-> code]

FFTResult(data, sampleRate, fftSize, window) ==
    [data |-> data,
     sampleRate |-> sampleRate,
     frequencyResolution |-> QDiv(sampleRate, QInt(fftSize)),
     size |-> fftSize,
     windowUsed |-> window]

\* a forward that transforms the input without padding it
ForwardNoPad(input, sampleRate) ==
    IF input = <<>> THEN Error("InvalidArgument")
    ELSE LET fftSize == NextPowerOf2(Len(input))
             complexData == [k \in 1..Len(input) |-> Complex(input[k])]
         IN  Ok(FFTResult(Radix2FFT(complexData, FALSE), sampleRate, fftSize, "None"))

\* FFT::forward(const std::vector<T>& input, T sampleRate, WindowType::None)
Forward(input, sampleRate) ==
    IF input = <<>> THEN Error("InvalidArgument")
    ELSE LET fftSize == NextPowerOf2(Len(input))
             paddedInput == ZeroPad(input, fftSize)
             complexData == [k \in 1..Len(paddedInput) |-> Complex(paddedInput[k])]
         IN  Ok(FFTResult(Radix2FFT(complexData, FALSE), sampleRate, fftSize, "None"))

\* FFT::forward(const std::vector<std::complex<T>>& input, T sampleRate,
\* WindowType::None)
ForwardComplex(input, sampleRate) ==
    IF input = <<>> THEN Error("InvalidArgument")
    ELSE LET fftSize == NextPowerOf2(Len(input))
             paddedInput == ZeroPadComplex(input, fftSize)
         IN  Ok(FFTResult(Radix2FFT(paddedInput, FALSE), sampleRate, fftSize, "None"))

\* an inverse without the check for an empty input
InverseNoEmptyCheck(input) ==
    LET data == Radix2FFT(input, TRUE)
    IN  Ok([k \in 1..Len(data) |-> Real(data[k])])

\* FFT::inverse(const std::vector<std::complex<T>>& input)
Inverse(input) ==
    IF input = <<>> THEN Error("InvalidArgument")
    ELSE LET data == Radix2FFT(input, TRUE)
         IN  Ok([k \in 1..Len(data) |-> Real(data[k])])

\* FFT::inverseComplex(const std::vector<std::complex<T>>& input)
InverseComplex(input) ==
    IF input = <<>> THEN Error("InvalidArgument")
    ELSE Ok(Radix2FFT(input, TRUE))

-----------------------------------------------------------------------------
(* One filter object driven through its public interface *)

Half == <<1, 2>>
Quarter == <<1, 4>>

\* the sample values fed to filters
Samples == {QInt(1), QInt(-2)}

Batches == UNION {[1..n -> Samples] : n \in 0..MaxBatch}

\* the constructor calls the model starts from
Ctors ==
    {[ctor |-> "LowPassFilter", args |-> <<Quarter>>]}
    \cup {[ctor |-> "HighPassFilter", args |-> <<Half>>]}
    \cup {[ctor |-> "BandPassFilter", args |-> <<Half, Quarter, 2>>]}
    \cup {[ctor |-> "BandPassFilter", args |-> <<Quarter, Half, 3>>]}
    \cup {[ctor |-> "MovingAverageFilter", args |-> <<w>>] : w \in 0..MaxWindow}
    \cup {[ctor |-> "MedianFilter", args |-> <<w>>] : w \in 0..MaxWindow}
    \cup {[ctor |-> "KalmanFilter", args |-> <<Half, QInt(2), QInt(1), Half>>]}
    \cup {[ctor |-> "KalmanFilter", args |-> <<QInt(1), QInt(1), QInt(0), QInt(4)>>]}

Construct(c) ==
    CASE c.ctor = "LowPassFilter" -> LowPassFilter(c.args[1])
      [] c.ctor = "HighPassFilter" -> HighPassFilter(c.args[1])
      [] c.ctor = "BandPassFilter" -> BandPassFilter(c.args[1], c.args[2], c.args[3])
      [] c.ctor = "MovingAverageFilter" -> MovingAverageFilter(c.args[1])
      [] c.ctor = "MedianFilter" -> MedianFilter(c.args[1])
      [] c.ctor = "KalmanFilter" ->
            KalmanFilter(c.args[1], c.args[2], c.args[3], c.args[4])

FilterStart ==
    /\ fCtor \in Ctors
    /\ flt = Construct(fCtor)
    /\ fHist = <<>>
    /\ fOuts = <<>>
    /\ fPrevHist = <<>>
    /\ fWasReset = FALSE

\* T process(T input) / KalmanFilter::update
FProcess ==
    \E x \in Samples :
        /\ Len(fHist) < MaxSamples
        /\ LET r == Process(flt, x)
           IN  /\ flt' = r.f
               /\ fHist' = Append(fHist, x)
               /\ fOuts' = Append(fOuts, r.out)
        /\ UNCHANGED <<fPrevHist, fWasReset, fCtor>>
        /\ UNCHANGED <<chainVars, fftVars, spectralVars, streamVars, dspVars,
                       threadVars, batchVars>>

\* std::vector<T> process(const std::vector<T>&)
FProcessBatch ==
    \E input \in Batches :
        /\ flt.kind # "Kalman"
        /\ Len(fHist) + Len(input) <= MaxSamples
        /\ LET r == ProcessBatch(flt, input)
           IN  /\ flt' = r.f
               /\ fHist' = fHist \o input
               /\ fOuts' = fOuts \o r.out
        /\ UNCHANGED <<fPrevHist, fWasReset, fCtor>>
        /\ UNCHANGED <<chainVars, fftVars, spectralVars, streamVars, dspVars,
                       threadVars, batchVars>>

\* void reset()
FReset ==
    /\ flt' = FilterReset(flt)
    /\ fPrevHist' = fHist
    /\ fHist' = <<>>
    /\ fOuts' = <<>>
    /\ fWasReset' = TRUE
    /\ UNCHANGED fCtor
    /\ UNCHANGED <<chainVars, fftVars, spectralVars, streamVars, dspVars,
                   threadVars, batchVars>>

\* MovingAverageFilter::setWindowSize; a call that takes effect resets the filter
FSetWindowSize ==
    \E w \in 0..MaxWindow :
        /\ flt.kind = "MovingAverage"
        /\ flt' = MovingAverageSetWindowSize(flt, w)
        /\ fCtor' = IF w = 0 THEN fCtor
                    ELSE [ctor |-> "MovingAverageFilter", args |-> <<w>>]
        /\ fHist' = IF w = 0 THEN fHist ELSE <<>>
        /\ fOuts' = IF w = 0 THEN fOuts ELSE <<>>
        /\ UNCHANGED <<fPrevHist, fWasReset>>
        /\ UNCHANGED <<chainVars, fftVars, spectralVars, streamVars, dspVars,
                       threadVars, batchVars>>

\* KalmanFilter::predict
FPredict ==
    /\ flt.kind = "Kalman"
    /\ flt' = KalmanPredict(flt).f
    /\ UNCHANGED <<fHist, fOuts, fPrevHist, fWasReset, fCtor>>
    /\ UNCHANGED <<chainVars, fftVars, spectralVars, streamVars, dspVars,
                   threadVars, batchVars>>

FilterIdle ==
    /\ fCtor = [ctor |-> "none", args |-> <<>>]
    /\ flt = [kind |-> "none"]
    /\ fHist = <<>>
    /\ fOuts = <<>>
    /\ fPrevHist = <<>>
    /\ fWasReset = FALSE

-----------------------------------------------------------------------------
(* Properties of a single filter *)

Range(s) == {s[i] : i \in 1..Len(s)}

\* the last n elements of s
LastN(s, n) == SubSeq(s, Len(s) - n + 1, Len(s))

\* the k-th smallest element of s (1 <= k <= Len(s)), found by counting
KthSmallest(s, k) ==
    CHOOSE v \in Range(s) :
        /\ Cardinality({i \in 1..Len(s) : QLess(s[i], v)}) < k
        /\ Cardinality({i \in 1..Len(s) : QLeq(s[i], v)}) >= k

MedianOf(s) ==
    LET n == Len(s)
    IN  IF n % 2 = 1 THEN KthSmallest(s, (n + 1) \div 2)
        ELSE QDiv(QAdd(KthSmallest(s, n \div 2), KthSmallest(s, n \div 2 + 1)),
                  QInt(2))

\* C3: processing s, reset(), processing s again returns what a freshly
\* constructed filter with the same parameters returns for s
C3_ResetReplay ==
    (fWasReset /\ fHist = fPrevHist) =>
        fOuts = ProcessBatch(Construct(fCtor), fHist).out

C3_Witness ==
    /\ fWasReset
    /\ fHist = fPrevHist
    /\ Len(fHist) >= 3
    /\ flt.kind = "Median"
    /\ flt.windowSize = 2

\* C4: the k-th output of a MovingAverageFilter since construction or reset
\* is the mean of the last min(k, W) inputs
C4_MovingAverageMean ==
    flt.kind = "MovingAverage" =>
        \A k \in 1..Len(fOuts) :
            LET n == Min(k, flt.windowSize)
            IN  fOuts[k] = QDiv(QSum(LastN(SubSeq(fHist, 1, k), n)), QInt(n))

C4_Witness ==
    /\ flt.kind = "MovingAverage"
    /\ flt.windowSize = 3
    /\ Len(fOuts) >= 4
    /\ fHist[1] # fHist[4]

\* C5: the k-th output of a MedianFilter since construction or reset is the
\* median of the last min(k, W) inputs
C5_MedianOfValid ==
    flt.kind = "Median" =>
        \A k \in 1..Len(fOuts) :
            fOuts[k] = MedianOf(LastN(SubSeq(fHist, 1, k), Min(k, flt.windowSize)))

C5_Witness ==
    /\ flt.kind = "Median"
    /\ flt.windowSize = 3
    /\ Len(fOuts) >= 4
    /\ fHist[1] # fHist[4]
    /\ fOuts[2] = <<-1, 2>>

\* a > 0, a < b and a <= b decided on the sign of a difference
QPositive(a) == a[1] > 0

QBelow(a, b) == QPositive(QSub(b, a))

QAtMost(a, b) == ~QPositive(QSub(a, b))

\* every sample processed since construction or the last reset is c
ConstantStream(c) == \A i \in 1..Len(fHist) : fHist[i] = c

\* the step is a KalmanFilter::update
IsKalmanUpdate == flt.kind = "Kalman" /\ Len(fHist') = Len(fHist) + 1

\* P^2 + Q*P - Q*R, positive exactly above the steady-state covariance
AboveSteadyState(f, P) ==
    QPositive(QSub(QAdd(QMul(P, P), QMul(f.processNoise, P)),
                   QMul(f.processNoise, f.measurementNoise)))

\* C14: with Q > 0, R > 0 and a positive initial covariance the covariance
\* of a KalmanFilter is positive in every reachable state
C14_CovariancePositive ==
    (/\ flt.kind = "Kalman"
     /\ QPositive(flt.processNoise)
     /\ QPositive(flt.measurementNoise)
     /\ QPositive(flt.initialCovariance)) =>
        QPositive(flt.covariance)

C14_Witness ==
    /\ flt.kind = "Kalman"
    /\ fWasReset
    /\ Len(fHist) >= 3
    /\ fHist[1] # fHist[2]
    /\ flt.covariance # flt.initialCovariance

\* C15: under a constant measurement stream c the estimate of a KalmanFilter
\* (Q > 0, R > 0) moves toward c on every update: the distance to c never
\* grows, the estimate never passes c, and the distance shrinks at least by
\* the factor R/(Q+R) < 1 per update, so it falls below any positive bound
C15_EstimateConverges ==
    (/\ flt.kind = "Kalman"
     /\ QPositive(flt.processNoise)
     /\ QPositive(flt.measurementNoise)) =>
        \A c \in Samples :
            ConstantStream(c) =>
                \A k \in 1..Len(fOuts) :
                    LET before == IF k = 1 THEN flt.initialEstimate
                                  ELSE fOuts[k - 1]
                        dBefore == QSub(c, before)
                        dAfter == QSub(c, fOuts[k])
                        factor == QDiv(flt.measurementNoise,
                                       QAdd(flt.processNoise, flt.measurementNoise))
                    IN  /\ QAtMost(QAbs(dAfter), QAbs(dBefore))
                        /\ dAfter[1] * dBefore[1] >= 0
                        /\ dBefore[1] = 0 => dAfter[1] = 0
                        /\ QAtMost(QAbs(dAfter), QMul(factor, QAbs(dBefore)))

C15_Witness ==
    /\ flt.kind = "Kalman"
    /\ Len(fOuts) >= 3
    /\ ConstantStream(QInt(-2))
    /\ fOuts[3] # fOuts[2]

C17_ConstantWindowGivesConstant ==
    flt.kind = "MovingAverage" =>
        \A k \in 1..Len(fOuts) :
            LET W == flt.windowSize
            IN  (k >= W /\ \A i \in (k - W + 1)..k : fHist[i] = fHist[k])
                    => fOuts[k] = fHist[k]

C17_Witness ==
    /\ flt.kind = "MovingAverage"
    /\ flt.windowSize = 2
    /\ Len(fHist) = 4
    /\ fHist[1] # fHist[2]
    /\ fHist[2] = fHist[3]
    /\ fHist[3] = fHist[4]

\* C18: a MovingAverageFilter or MedianFilter has window size >= 1, a buffer
\* of that length and a write index below it
C18_WindowWellFormed ==
    flt.kind \in {"MovingAverage", "Median"} =>
        /\ flt.windowSize >= 1
        /\ Len(flt.buffer) = flt.windowSize
        /\ flt.index < flt.windowSize

C18_Witness ==
    /\ flt.kind = "MovingAverage"
    /\ fCtor.args = <<1>>
    /\ flt.windowSize = 1
    /\ Len(fHist) >= 1
    /\ fWasReset

-----------------------------------------------------------------------------
(* A RealTimeProcessor and the filters its callers hold references to *)

Null == 0

\* the filter objects that exist; callers keep their shared_ptrs
InitPool == <<LowPassFilter(Half), MovingAverageFilter(2)>>
\* the window sizes a holder sets
ChainWindows == {0, 3}

FilterIds == 1..Len(InitPool)

\* the chain holds at most as many references as there are filters; a filter
\* may be added twice
MaxChain == Len(InitPool)

Call(op, arg, ok, val) == [op |-> op, arg |-> arg, ok |-> ok, val |-> val]

NoProcessing == Call("none", <<>>, TRUE, <<>>)

ChainStart ==
    /\ pool = InitPool
    /\ m_filters = <<>>
    /\ m_latency = 0
    /\ cCount = 0
    /\ cLast = NoProcessing

\* core::Result<void> addFilter(std::shared_ptr<Filter<T>> filter)
CAddFilter ==
    \E f \in FilterIds \cup {Null} :
        /\ Len(m_filters) < MaxChain
        /\ IF f = Null
           THEN /\ cLast' = Call("addFilter", <<>>, FALSE, "InvalidArgument")
                /\ UNCHANGED <<m_filters, m_latency>>
                /\ UNCHANGED <<filterVars, fftVars, spectralVars, streamVars,
                               dspVars, threadVars, batchVars>>
           ELSE /\ m_filters' = Append(m_filters, f)
                /\ m_latency' = m_latency + GetOrder(pool[f])
                /\ cLast' = NoProcessing
        /\ UNCHANGED <<pool, cCount>>
        /\ UNCHANGED <<filterVars, fftVars, spectralVars, streamVars, dspVars,
                       threadVars, batchVars>>

\* void clearFilters()
CClearFilters ==
    /\ m_filters' = <<>>
    /\ m_latency' = 0
    /\ cLast' = NoProcessing
    /\ UNCHANGED <<pool, cCount>>
    /\ UNCHANGED <<filterVars, fftVars, spectralVars, streamVars, dspVars,
                   threadVars, batchVars>>

\* T processSample(T input)
CProcessSample ==
    \E x \in Samples :
        /\ cCount < MaxChainSamples
        /\ LET r == ProcessSample(pool, m_filters, x)
           IN  /\ pool' = r.pool
               /\ cLast' = Call("processSample", <<x>>, TRUE, <<r.out>>)
        /\ cCount' = cCount + 1
        /\ UNCHANGED <<m_filters, m_latency>>
        /\ UNCHANGED <<filterVars, fftVars, spectralVars, streamVars, dspVars,
                       threadVars, batchVars>>

\* std::vector<T> processBuffer(const std::vector<T>& input): the return
\* type carries no error, every call hands back a vector
CProcessBuffer ==
    \E input \in Batches :
        /\ cCount + Len(input) <= MaxChainSamples
        /\ LET r == ProcessBuffer(pool, m_filters, input)
           IN  /\ pool' = r.pool
               /\ cLast' = Call("processBuffer", input, TRUE, r.out)
        /\ cCount' = cCount + Len(input)
        /\ UNCHANGED <<m_filters, m_latency>>
        /\ UNCHANGED <<filterVars, fftVars, spectralVars, streamVars, dspVars,
                       threadVars, batchVars>>

\* void RealTimeProcessor::reset()
CReset ==
    /\ pool' = ResetAll(pool, m_filters)
    /\ cLast' = Call("reset", <<>>, TRUE, <<>>)
    /\ UNCHANGED <<m_filters, m_latency, cCount>>
    /\ UNCHANGED <<filterVars, fftVars, spectralVars, streamVars, dspVars,
                   threadVars, batchVars>>

\* a holder of a MovingAverageFilter calls setWindowSize on it
PSetWindowSize ==
    \E f \in FilterIds, w \in ChainWindows :
        /\ pool[f].kind = "MovingAverage"
        /\ pool' = [pool EXCEPT ![f] = MovingAverageSetWindowSize(pool[f], w)]
        /\ cLast' = NoProcessing
        /\ UNCHANGED <<m_filters, m_latency, cCount>>
        /\ UNCHANGED <<filterVars, fftVars, spectralVars, streamVars, dspVars,
                       threadVars, batchVars>>

\* a holder of a filter calls its std::vector<T> process(const std::vector<T>&)
PProcessBatch ==
    \E f \in FilterIds, input \in Batches :
        /\ cCount + Len(input) <= MaxChainSamples
        /\ LET r == ProcessBatch(pool[f], input)
           IN  /\ pool' = [pool EXCEPT ![f] = r.f]
               /\ cLast' = Call("process", input, TRUE, r.out)
        /\ cCount' = cCount + Len(input)
        /\ UNCHANGED <<m_filters, m_latency>>
        /\ UNCHANGED <<filterVars, fftVars, spectralVars, streamVars, dspVars,
                       threadVars, batchVars>>

ChainIdle ==
    /\ pool = <<>>
    /\ m_filters = <<>>
    /\ m_latency = 0
    /\ cCount = 0
    /\ cLast = NoProcessing

-----------------------------------------------------------------------------
(* A caller of the FFT entry points: the functions are static and keep no   *)
(* state, so one call, and the inverse of a forward result, are all there  *)
(* is to a run                                                             *)

\* the values of real samples and sample rates
RealValues == {QInt(0), QInt(1), QInt(-2)}

\* the values of complex samples
ComplexValues == {CZero, COne, CI}

SampleRates == {QInt(1), QInt(1000)}

RealSignals == UNION {[1..n -> RealValues] : n \in 0..MaxFFTLen}

ComplexSignals == UNION {[1..n -> ComplexValues] : n \in 0..MaxFFTLen}

\* of: the real signal whose transform the input is, <<>> if it is none
FFTCall(op, input, sampleRate, res, of) ==
    [op |-> op, input |-> input, sampleRate |-> sampleRate, res |-> res, of |-> of]

FFTIdle == fftCall = FFTCall("none", <<>>, QInt(1), Ok(<<>>), <<>>)

FFTForward ==
    \E x \in RealSignals, sr \in SampleRates :
        /\ fftCall.op = "none"
        /\ fftCall' = FFTCall("forward", x, sr, Forward(x, sr), <<>>)
        /\ UNCHANGED <<filterVars, chainVars, spectralVars, streamVars,
                       dspVars, threadVars, batchVars>>

FFTForwardComplex ==
    \E x \in ComplexSignals, sr \in SampleRates :
        /\ fftCall.op = "none"
        /\ fftCall' = FFTCall("forwardComplex", x, sr, ForwardComplex(x, sr), <<>>)
        /\ UNCHANGED <<filterVars, chainVars, spectralVars, streamVars,
                       dspVars, threadVars, batchVars>>

FFTInverse ==
    \E x \in ComplexSignals :
        /\ fftCall.op = "none"
        /\ fftCall' = FFTCall("inverse", x, QInt(1), Inverse(x), <<>>)
        /\ UNCHANGED <<filterVars, chainVars, spectralVars, streamVars,
                       dspVars, threadVars, batchVars>>

FFTInverseComplex ==
    \E x \in ComplexSignals :
        /\ fftCall.op = "none"
        /\ fftCall' = FFTCall("inverseComplex", x, QInt(1), InverseComplex(x), <<>>)
        /\ UNCHANGED <<filterVars, chainVars, spectralVars, streamVars,
                       dspVars, threadVars, batchVars>>

\* the length of the longer signals handed to radix2FFT: the next power of
\* two above MaxFFTLen
LongLen == NextPowerOf2(MaxFFTLen + 1)

\* impulses at every index, and one signal with no zero sample
LongSignals ==
    {[i \in 1..LongLen |-> IF i = k THEN v ELSE CZero] :
        k \in 1..LongLen, v \in {COne, CI}}
    \cup {[i \in 1..LongLen |->
              CAdd(Complex(QInt(i)), IF i % 3 = 0 THEN CI ELSE CZero)]}

\* radix2FFT(data, inverse) as forward and inverse call it; res is data
\* after the call
FFTRadix2 ==
    /\ fftCall.op = "none"
    /\ \E x \in ComplexSignals \cup LongSignals, inverse \in BOOLEAN :
        fftCall' = [op |-> "radix2FFT", input |-> x, sampleRate |-> QInt(1),
                    res |-> Radix2FFT(x, inverse), of |-> <<>>,
                    inverse |-> inverse]
    /\ UNCHANGED <<filterVars, chainVars, spectralVars, streamVars, dspVars,
                   threadVars, batchVars>>
\* inverse(forward(x).data): the caller hands the data of the result on
FFTInverseOfForward ==
    /\ fftCall.op = "forward"
    /\ fftCall.res.ok
    /\ fftCall' = FFTCall("inverse", fftCall.res.val.data, QInt(1),
                          Inverse(fftCall.res.val.data), fftCall.input)
    /\ UNCHANGED <<filterVars, chainVars, spectralVars, streamVars, dspVars,
                   threadVars, batchVars>>

\* bool FFT::isValidSize(uint32_t)
FFTIsValidSize ==
    \E n \in 0..MaxSize :
        /\ fftCall.op = "none"
        /\ fftCall' = FFTCall("isValidSize", n, QInt(1), Ok(IsValidSize(n)), <<>>)
        /\ UNCHANGED <<filterVars, chainVars, spectralVars, streamVars,
                       dspVars, threadVars, batchVars>>

\* uint32_t FFT::nextPowerOf2(uint32_t)
FFTNextPowerOf2 ==
    \E n \in 0..MaxSize :
        /\ fftCall.op = "none"
        /\ fftCall' = FFTCall("nextPowerOf2", n, QInt(1), Ok(NextPowerOf2(n)), <<>>)
        /\ UNCHANGED <<filterVars, chainVars, spectralVars, streamVars,
                       dspVars, threadVars, batchVars>>

-----------------------------------------------------------------------------
(* nextPowerOf2 on the upper half of the range of uint32_t *)

\* the bits of 2^e + k, for k < 2^e
WithBit(e, k) == [i \in BitIndex |-> IF i = e THEN 1 ELSE U32(k)[i]]

\* sizes around 2^30 and 2^31
WideSizes == {WithBit(e, k) : e \in {30, 31}, k \in 0..MaxSize}

\* uint32_t FFT::nextPowerOf2(uint32_t), input and result as bit vectors
FFTNextPowerOf2Wide ==
    /\ fftCall.op = "none"
    /\ \E b \in WideSizes :
        fftCall' = FFTCall("nextPowerOf2Wide", b, QInt(1),
                           Ok(NextPowerOf2Bits(b)), <<>>)
    /\ UNCHANGED <<filterVars, chainVars, spectralVars, streamVars, dspVars,
                   threadVars, batchVars>>

-----------------------------------------------------------------------------
(* FFTResult accessors and SpectralAnalysis *)

\* the integer square root of a perfect square
ISqrt(n) == CHOOSE r \in 0..n : r * r = n

\* std::abs(std::complex<T>): sqrt(re^2 + im^2), exact for the numbers whose
\* squared modulus is the square of a rational
Magnitude(z) ==
    LET sq == CMul(z, Conj(z))
    IN  Norm(ISqrt(sq.c[1]), ISqrt(sq.d))

\* FFTResult<T>::getMagnitude
GetMagnitude(r) == [i \in 1..Len(r.data) |-> Magnitude(r.data[i])]

\* FFTResult<T>::getFrequencyBins
GetFrequencyBins(r) ==
    [i \in 1..Len(r.data) |-> QMul(QInt(i - 1), r.frequencyResolution)]

RECURSIVE FindPeakLoopLastWins(_, _, _, _, _, _)
\* the scan with >= for >: a later bin of equal magnitude replaces the peak
FindPeakLoopLastWins(magnitude, frequencies, minFreq, maxFreq, i, p) ==
    IF ~(i < Len(magnitude) /\ i < Len(frequencies)) THEN p
    ELSE IF /\ QLeq(minFreq, frequencies[i + 1])
            /\ QLeq(frequencies[i + 1], maxFreq)
            /\ QLeq(p.mag, magnitude[i + 1])
         THEN FindPeakLoopLastWins(magnitude, frequencies, minFreq, maxFreq, i + 1,
                           [freq |-> frequencies[i + 1], mag |-> magnitude[i + 1]])
         ELSE FindPeakLoopLastWins(magnitude, frequencies, minFreq, maxFreq, i + 1, p)

RECURSIVE FindPeakLoop(_, _, _, _, _, _)
\* the scan of findPeakFrequency from index i on; p = [freq, mag] so far
FindPeakLoop(magnitude, frequencies, minFreq, maxFreq, i, p) ==
    IF ~(i < Len(magnitude) /\ i < Len(frequencies)) THEN p
    ELSE IF /\ QLeq(minFreq, frequencies[i + 1])
            /\ QLeq(frequencies[i + 1], maxFreq)
            /\ QLess(p.mag, magnitude[i + 1])
         THEN FindPeakLoop(magnitude, frequencies, minFreq, maxFreq, i + 1,
                           [freq |-> frequencies[i + 1], mag |-> magnitude[i + 1]])
         ELSE FindPeakLoop(magnitude, frequencies, minFreq, maxFreq, i + 1, p)

\* SpectralAnalysis::findPeakFrequency(fftResult, minFreq, maxFreq)
FindPeakFrequency(r, minFreq, maxFreq) ==
    IF r.data = <<>> THEN Error("InvalidArgument")
    ELSE LET hi == IF QLess(maxFreq, QInt(0)) THEN QDiv(r.sampleRate, QInt(2))
                   ELSE maxFreq
             p == FindPeakLoop(GetMagnitude(r), GetFrequencyBins(r), minFreq, hi, 0,
                               [freq |-> QInt(0), mag |-> QInt(0)])
         IN  IF p.mag = QInt(0) THEN Error("DataError") ELSE Ok(p.freq)

RECURSIVE LocalMaximaLoop(_, _, _, _)
\* for (i = 1; i < magnitude.size() - 1; ++i), for a size of at least 1
LocalMaximaLoop(magnitude, frequencies, i, peakPairs) ==
    IF ~(i < Len(magnitude) - 1) THEN peakPairs
    ELSE LocalMaximaLoop(magnitude, frequencies, i + 1,
            IF /\ QLess(magnitude[i], magnitude[i + 1])
               /\ QLess(magnitude[i + 2], magnitude[i + 1])
            THEN Append(peakPairs, [first |-> magnitude[i + 1],
                                    second |-> frequencies[i + 1]])
            ELSE peakPairs)

\* std::sort with a.first > b.first: every order the comparison allows (the
\* order of pairs of equal magnitude is unspecified)
SortDescending(peakPairs) ==
    LET k == Len(peakPairs)
    IN  {[i \in 1..k |-> peakPairs[q[i]]] :
            q \in {o \in Permutations(1..k) :
                      \A i \in 1..(k - 1) :
                          ~QLess(peakPairs[o[i]].first, peakPairs[o[i + 1]].first)}}

RECURSIVE SelectLoop(_, _, _, _, _)
\* the greedy selection from the i-th sorted pair on
SelectLoop(peakPairs, numPeaks, minDistance, i, selectedPeaks) ==
    IF i > Len(peakPairs) \/ Len(selectedPeaks) >= numPeaks THEN selectedPeaks
    ELSE LET peak == peakPairs[i]
             tooClose == \E j \in 1..Len(selectedPeaks) :
                 QLess(QAbs(QSub(peak.second, selectedPeaks[j])), minDistance)
         IN  SelectLoop(peakPairs, numPeaks, minDistance, i + 1,
                        IF tooClose THEN selectedPeaks
                        ELSE Append(selectedPeaks, peak.second))

\* what a read of magnitude[i] beyond the vector's end can lead to: the
\* process is killed, or the loop goes on over whatever the memory holds
OutOfBoundsRead ==
    {[ok |-> FALSE, code |-> "Crash"], Ok(<<QInt(-1)>>), Ok(<<>>)}

\* SpectralAnalysis::findPeaks(fftResult, numPeaks, minDistance): the set of
\* its outcomes.  magnitude.size() - 1 is computed in size_t: for an empty
\* result it wraps to SIZE_MAX and the loop reads magnitude[0..2] of an empty
\* vector
FindPeaks(r, numPeaks, minDistance) ==
    IF Len(r.data) = 0 THEN OutOfBoundsRead
    ELSE {Ok(Sort(SelectLoop(sorted, numPeaks, minDistance, 1, <<>>))) :
            sorted \in SortDescending(
                LocalMaximaLoop(GetMagnitude(r), GetFrequencyBins(r), 1, <<>>))}

RECURSIVE CentroidLoop(_, _, _, _)
\* the sums of calculateSpectralCentroid from index i on
CentroidLoop(magnitude, frequencies, i, acc) ==
    IF ~(i < Len(magnitude) /\ i < Len(frequencies)) THEN acc
    ELSE CentroidLoop(magnitude, frequencies, i + 1,
            [numerator |-> QAdd(acc.numerator,
                                QMul(frequencies[i + 1], magnitude[i + 1])),
             denominator |-> QAdd(acc.denominator, magnitude[i + 1])])

\* SpectralAnalysis::calculateSpectralCentroid(fftResult)
CalculateSpectralCentroid(r) ==
    LET acc == CentroidLoop(GetMagnitude(r), GetFrequencyBins(r), 0,
                            [numerator |-> QInt(0), denominator |-> QInt(0)])
    IN  IF QLess(QInt(0), acc.denominator)
        THEN QDiv(acc.numerator, acc.denominator) ELSE QInt(0)

-----------------------------------------------------------------------------
(* A caller of SpectralAnalysis: the functions are static, one call is a run *)

\* bin values, all of rational magnitude: 0, 1 and -2i
SpectrumValues == {CZero, COne, CMul(Complex(QInt(-2)), CI)}

\* an FFTResult of n bins at half a hertz per bin, as forward fills it
Spectrum(data) ==
    [data |-> data,
     sampleRate |-> QMul(QInt(Len(data)), Half),
     frequencyResolution |-> Half,
     size |-> Len(data),
     windowUsed |-> "None"]

Spectra == {Spectrum(d) : d \in UNION {[1..n -> SpectrumValues] : n \in 0..MaxBins}}

\* T maxFreq = -1: the default argument
Omitted == QInt(-1)

MinFreqs == {QInt(0), QInt(1)}

MaxFreqs == {Omitted, Half, QInt(2)}

PeakCounts == {0, 1, 2}

MinDistances == {QInt(0), QInt(1), <<3, 2>>}

\* a sine of period 4 samples: a*sin(2*pi*n/4), n = 0..len-1
SineTone(len, a) ==
    [n \in 1..len |-> CASE n % 4 = 2 -> QInt(a)
                        [] n % 4 = 0 -> QInt(-a)
                        [] OTHER -> QInt(0)]

\* whole numbers of periods that fill a transform exactly
ToneLengths == {4, 8}

ToneAmplitudes == {1, 3}

\* tone: the frequency of the sine the result was computed from, <<>> if none
SACall(op, result, args, res, tone) ==
    [op |-> op, result |-> result, args |-> args, res |-> res, tone |-> tone]

SpectralIdle == saCall = SACall("none", Spectrum(<<>>), <<>>, Ok(<<>>), <<>>)

SAFindPeakFrequency ==
    /\ saCall.op = "none"
    /\ \E r \in Spectra, minFreq \in MinFreqs, maxFreq \in MaxFreqs :
        /\ saCall' = SACall("findPeakFrequency", r, <<minFreq, maxFreq>>,
                            FindPeakFrequency(r, minFreq, maxFreq), <<>>)
        /\ UNCHANGED <<filterVars, chainVars, fftVars, streamVars, dspVars,
                       threadVars, batchVars>>

SAFindPeaks ==
    /\ saCall.op = "none"
    /\ \E r \in Spectra, numPeaks \in PeakCounts, minDistance \in MinDistances :
        \E res \in FindPeaks(r, numPeaks, minDistance) :
            /\ saCall' = SACall("findPeaks", r, <<numPeaks, minDistance>>, res, <<>>)
            /\ UNCHANGED <<filterVars, chainVars, fftVars, streamVars,
                           dspVars, threadVars, batchVars>>

\* calculateSpectralCentroid(forward(tone, sampleRate))
SAToneCentroid ==
    /\ saCall.op = "none"
    /\ \E len \in ToneLengths, a \in ToneAmplitudes, sampleRate \in SampleRates :
        LET r == Forward(SineTone(len, a), sampleRate).val
        IN  /\ saCall' = SACall("calculateSpectralCentroid", r, <<>>,
                                Ok(CalculateSpectralCentroid(r)),
                                QDiv(sampleRate, QInt(4)))
            /\ UNCHANGED <<filterVars, chainVars, fftVars, streamVars,
                           dspVars, threadVars, batchVars>>

SACentroid ==
    /\ saCall.op = "none"
    /\ \E r \in Spectra :
        /\ saCall' = SACall("calculateSpectralCentroid", r, <<>>,
                            Ok(CalculateSpectralCentroid(r)), <<>>)
        /\ UNCHANGED <<filterVars, chainVars, fftVars, streamVars, dspVars,
                       threadVars, batchVars>>

-----------------------------------------------------------------------------
(* RealTimeFFT *)

\* FFT::generateWindow(size, WindowType::None): all ones
GenerateWindow(size) == [i \in 1..size |-> QInt(1)]

\* hopSize = fftSize * (1 - overlapFactor), rounded to an integer >= 1
HopSize(fftSize, overlapFactor) ==
    LET x == QAdd(QMul(QInt(fftSize), QSub(QInt(1), overlapFactor)), Half)
        rounded == x[1] \div x[2]
    IN  IF rounded < 1 THEN 1 ELSE rounded

\* RealTimeFFT(fftSize, sampleRate, overlapFactor, WindowType::None); stream,
\* emitted and returned record the samples delivered since construction or
\* the last reset, the results emitted for them, and how many of these the
\* last call returned
RealTimeFFT(fftSize, sampleRate, overlapFactor) ==
    [kind |-> "RealTimeFFT",
     fftSize |-> fftSize,
     sampleRate |-> sampleRate,
     overlapFactor |-> overlapFactor,
     windowCoeffs |-> GenerateWindow(fftSize),
     hopSize |-> HopSize(fftSize, overlapFactor),
     buffer |-> <<>>,
     stream |-> <<>>,
     emitted |-> <<>>,
     returned |-> 0]

\* the full window: cached coefficients applied, then forward
TransformWindow(r) ==
    Forward([i \in 1..r.fftSize |-> QMul(r.buffer[i], r.windowCoeffs[i])],
            r.sampleRate).val

RECURSIVE ProcessSamplesLoop(_, _, _)
\* appends samples[i..]; each time the buffer holds fftSize samples one
\* result is emitted and the oldest hopSize samples are discarded
ProcessSamplesLoop(r, samples, i) ==
    IF Len(r.buffer) >= r.fftSize
    THEN ProcessSamplesLoop(
             [r EXCEPT !.emitted = Append(r.emitted, TransformWindow(r)),
                       !.returned = r.returned + 1,
                       !.buffer = SubSeq(r.buffer, r.hopSize + 1, Len(r.buffer))],
             samples, i)
    ELSE IF i > Len(samples) THEN r
    ELSE ProcessSamplesLoop([r EXCEPT !.buffer = Append(r.buffer, samples[i])],
                            samples, i + 1)

\* std::vector<FFTResult<T>> RealTimeFFT::processSamples(samples)
ProcessSamples(r, samples) ==
    ProcessSamplesLoop([r EXCEPT !.stream = r.stream \o samples, !.returned = 0],
                       samples, 1)

\* RealTimeFFT::reset: clears the buffer, keeps the window coefficients
RealTimeFFTReset(r) ==
    [r EXCEPT !.buffer = <<>>, !.stream = <<>>, !.emitted = <<>>, !.returned = 0]

FFTSizes == {2, 4}

OverlapFactors == {QInt(0), Half, <<3, 4>>}

StreamBatches == UNION {[1..n -> Samples] : n \in 0..MaxStreamBatch}

StreamIdle == rt = [kind |-> "none"]

StreamStart ==
    rt \in {RealTimeFFT(n, QInt(1000), o) : n \in FFTSizes, o \in OverlapFactors}

RTProcessSamples ==
    \E samples \in StreamBatches :
        /\ Len(rt.stream) + Len(samples) <= MaxStream
        /\ rt' = ProcessSamples(rt, samples)
        /\ UNCHANGED <<filterVars, chainVars, fftVars, spectralVars, dspVars,
                       threadVars, batchVars>>

RTReset ==
    /\ rt' = RealTimeFFTReset(rt)
    /\ UNCHANGED <<filterVars, chainVars, fftVars, spectralVars, dspVars,
                   threadVars, batchVars>>

-----------------------------------------------------------------------------
(* Correlation functions of dsp.cpp; index i of the code is i + 1 here *)

\* the inner loop over j of crossCorrelation for one output index i:
\* result[i] += signal1[j] * signal2[i - j] when i >= j and i - j < n2
RECURSIVE CorrelationInner(_, _, _, _, _)
CorrelationInner(signal1, signal2, i, j, acc) ==
    IF j >= Len(signal1) THEN acc
    ELSE CorrelationInner(signal1, signal2, i, j + 1,
             IF i >= j /\ i - j < Len(signal2)
             THEN QAdd(acc, QMul(signal1[j + 1], signal2[i - j + 1]))
             ELSE acc)

\* std::vector<T> crossCorrelation(signal1, signal2)
CrossCorrelation(signal1, signal2) ==
    IF signal1 = <<>> \/ signal2 = <<>> THEN <<>>
    ELSE LET resultSize == Len(signal1) + Len(signal2) - 1
         IN  [k \in 1..resultSize |->
                 CorrelationInner(signal1, signal2, k - 1, 0, QInt(0))]

\* std::vector<T> autoCorrelation(signal)
AutoCorrelation(signal) == CrossCorrelation(signal, signal)

\* the signals handed to the correlation functions
CorrValues == {QInt(0), QInt(1), QInt(2)}

CorrSignals == UNION {[1..n -> CorrValues] : n \in 0..MaxCorrLen}

DspIdle == dspCall = [op |-> "none"]

DspCrossCorrelation ==
    /\ dspCall.op = "none"
    /\ \E x \in CorrSignals, y \in CorrSignals :
        /\ dspCall' = [op |-> "crossCorrelation", x |-> x, y |-> y,
                       res |-> CrossCorrelation(x, y)]
        /\ UNCHANGED <<filterVars, chainVars, fftVars, spectralVars, streamVars,
                       threadVars, batchVars>>

DspAutoCorrelation ==
    /\ dspCall.op = "none"
    /\ \E x \in CorrSignals :
        /\ dspCall' = [op |-> "autoCorrelation", x |-> x, y |-> x,
                       res |-> AutoCorrelation(x)]
        /\ UNCHANGED <<filterVars, chainVars, fftVars, spectralVars, streamVars,
                       threadVars, batchVars>>

-----------------------------------------------------------------------------
(* Threads calling RealTimeProcessors, each call made while holding the    *)
(* processor's own mutex; a filter is a shared_ptr target, so the same     *)
(* filter can be pushed to the m_filters of more than one processor. A     *)
(* call on a filter takes time: it is entered and left in separate steps.  *)

Threads == {"A", "B"}

Processors == {"P", "Q"}

\* the filter objects the threads hold shared_ptrs to
SharedFilters == {1, 2}

\* lengths of the vectors given to processBuffer
ThreadBatches == {0, 2}

IdleThread(calls) ==
    [pc |-> "idle", proc |-> "none", op |-> "none", pos |-> 0, left |-> 0,
     calls |-> calls]

ThreadIdle ==
    /\ procFilters = <<>>
    /\ mutexOwner = <<>>
    /\ thread = <<>>

\* RealTimeProcessor(): m_latency(0), no filters
ThreadStart ==
    /\ procFilters = [p \in Processors |-> <<>>]
    /\ mutexOwner = [p \in Processors |-> "free"]
    /\ thread = [t \in Threads |-> IdleThread(0)]

\* the filter a thread's call is at: m_filters[pos] of its processor
CurrentFilter(t) == procFilters[thread[t].proc][thread[t].pos]

\* the member function of Filter the processor's operation calls
FilterCall(op) ==
    CASE op \in {"processSample", "processBuffer"} -> "process"
      [] op = "reset" -> "reset"
      [] op = "addFilter" -> "getOrder"

\* std::lock_guard on the processor's mutex, taken before the call
TLock ==
    \E t \in Threads, p \in Processors :
        /\ thread[t].pc = "idle"
        /\ thread[t].calls < MaxThreadCalls
        /\ mutexOwner[p] = "free"
        /\ mutexOwner' = [mutexOwner EXCEPT ![p] = t]
        /\ thread' = [thread EXCEPT ![t].pc = "locked", ![t].proc = p]
        /\ UNCHANGED procFilters
        /\ UNCHANGED <<filterVars, chainVars, fftVars, spectralVars, streamVars,
                       dspVars, batchVars>>

\* addFilter(filter): the null check, push_back, then filter->getOrder()
TAddFilter ==
    \E t \in Threads, f \in SharedFilters \cup {Null} :
        /\ thread[t].pc = "locked"
        /\ LET p == thread[t].proc
           IN  IF f = Null
               THEN /\ thread' = [thread EXCEPT ![t].pc = "returned",
                                                ![t].op = "addFilter"]
                    /\ UNCHANGED procFilters
               ELSE /\ procFilters' = [procFilters EXCEPT ![p] = Append(@, f)]
                    /\ thread' = [thread EXCEPT ![t].pc = "loop",
                                                ![t].op = "addFilter",
                                                ![t].pos = Len(procFilters[p]) + 1,
                                                ![t].left = 1]
        /\ UNCHANGED mutexOwner
        /\ UNCHANGED <<filterVars, chainVars, fftVars, spectralVars, streamVars,
                       dspVars, batchVars>>

\* processSample(input): the loop over m_filters starts
TProcessSample ==
    \E t \in Threads :
        /\ thread[t].pc = "locked"
        /\ thread' = [thread EXCEPT ![t].pc = "loop", ![t].op = "processSample",
                                    ![t].pos = 1, ![t].left = 1]
        /\ UNCHANGED <<procFilters, mutexOwner>>
        /\ UNCHANGED <<filterVars, chainVars, fftVars, spectralVars, streamVars,
                       dspVars, batchVars>>

\* processBuffer(input): processSample for each sample; left counts the samples
TProcessBuffer ==
    \E t \in Threads, n \in ThreadBatches :
        /\ thread[t].pc = "locked"
        /\ thread' = [thread EXCEPT ![t].pc = IF n = 0 THEN "returned" ELSE "loop",
                                    ![t].op = "processBuffer",
                                    ![t].pos = 1, ![t].left = n]
        /\ UNCHANGED <<procFilters, mutexOwner>>
        /\ UNCHANGED <<filterVars, chainVars, fftVars, spectralVars, streamVars,
                       dspVars, batchVars>>

\* reset(): the loop over m_filters starts
TReset ==
    \E t \in Threads :
        /\ thread[t].pc = "locked"
        /\ thread' = [thread EXCEPT ![t].pc = "loop", ![t].op = "reset",
                                    ![t].pos = 1, ![t].left = 1]
        /\ UNCHANGED <<procFilters, mutexOwner>>
        /\ UNCHANGED <<filterVars, chainVars, fftVars, spectralVars, streamVars,
                       dspVars, batchVars>>

\* the call filter->process(output), filter->reset() or filter->getOrder() begins
TEnterFilter ==
    \E t \in Threads :
        /\ thread[t].pc = "loop"
        /\ thread[t].pos <= Len(procFilters[thread[t].proc])
        /\ thread' = [thread EXCEPT ![t].pc = "in"]
        /\ UNCHANGED <<procFilters, mutexOwner>>
        /\ UNCHANGED <<filterVars, chainVars, fftVars, spectralVars, streamVars,
                       dspVars, batchVars>>

\* the call on the filter returns; the range-for moves to the next filter
TLeaveFilter ==
    \E t \in Threads :
        /\ thread[t].pc = "in"
        /\ thread' = IF thread[t].op = "addFilter"
                     THEN [thread EXCEPT ![t].pc = "returned"]
                     ELSE [thread EXCEPT ![t].pc = "loop", ![t].pos = @ + 1]
        /\ UNCHANGED <<procFilters, mutexOwner>>
        /\ UNCHANGED <<filterVars, chainVars, fftVars, spectralVars, streamVars,
                       dspVars, batchVars>>

\* the loop over m_filters ends: the next sample of the buffer, or return
TLoopEnd ==
    \E t \in Threads :
        /\ thread[t].pc = "loop"
        /\ thread[t].pos > Len(procFilters[thread[t].proc])
        /\ thread' = IF thread[t].left > 1
                     THEN [thread EXCEPT ![t].pos = 1, ![t].left = @ - 1]
                     ELSE [thread EXCEPT ![t].pc = "returned"]
        /\ UNCHANGED <<procFilters, mutexOwner>>
        /\ UNCHANGED <<filterVars, chainVars, fftVars, spectralVars, streamVars,
                       dspVars, batchVars>>

\* the lock_guard goes out of scope after the call returned
TUnlock ==
    \E t \in Threads :
        /\ thread[t].pc = "returned"
        /\ mutexOwner' = [mutexOwner EXCEPT ![thread[t].proc] = "free"]
        /\ thread' = [thread EXCEPT ![t] = IdleThread(thread[t].calls + 1)]
        /\ UNCHANGED procFilters
        /\ UNCHANGED <<filterVars, chainVars, fftVars, spectralVars, streamVars,
                       dspVars, batchVars>>

-----------------------------------------------------------------------------
(* One filter object and the record of the process calls made on it:     *)
(* calls[i] is [op, before, input, out], before the filter as call i     *)
(* found it                                                              *)

BatchIdle == bt = [kind |-> "none"]

\* the constructor calls of the Filter subclasses
FilterCtors == {c \in Ctors : c.ctor # "KalmanFilter"}

BatchStart ==
    \E c \in FilterCtors :
        bt = [kind |-> "filter", ctor |-> c, flt |-> Construct(c), calls |-> <<>>]

\* T process(T input)
BProcess ==
    /\ Len(bt.calls) < MaxBatchCalls
    /\ \E x \in Samples :
        LET r == Process(bt.flt, x)
        IN  bt' = [bt EXCEPT !.flt = r.f,
                             !.calls = Append(@, [op |-> "process",
                                                  before |-> bt.flt,
                                                  input |-> <<x>>,
                                                  out |-> <<r.out>>])]
    /\ UNCHANGED <<filterVars, chainVars, fftVars, spectralVars, streamVars,
                   dspVars, threadVars>>

\* std::vector<T> process(const std::vector<T>& input)
BProcessBatch ==
    /\ Len(bt.calls) < MaxBatchCalls
    /\ \E input \in Batches :
        LET r == ProcessBatch(bt.flt, input)
        IN  bt' = [bt EXCEPT !.flt = r.f,
                             !.calls = Append(@, [op |-> "batch",
                                                  before |-> bt.flt,
                                                  input |-> input,
                                                  out |-> r.out])]
    /\ UNCHANGED <<filterVars, chainVars, fftVars, spectralVars, streamVars,
                   dspVars, threadVars>>

-----------------------------------------------------------------------------
(* One LowPassFilter and the setAlpha calls made on it: bt.calls is the *)
(* sequence of the coefficients given to setAlpha                       *)

\* the coefficients given to LowPassFilter(alpha) and to setAlpha
Alphas ==
    {QInt(-1), QInt(0), <<1, 2000>>, AlphaMin, Quarter, Half, AlphaMax,
     <<1999, 2000>>, QInt(1), QInt(2)}

\* the decays exp(-2*pi*cutoffFreq) of the cutoffs given to the constructor
Decays == {QInt(0), Half, <<1999, 2000>>, QInt(1), QInt(2)}

AlphaStart ==
    \E f \in {LowPassFilter(a) : a \in Alphas}
             \cup {LowPassFilterCutoff(e, order) : e \in Decays, order \in {1, 2}} :
        bt = [kind |-> "lowpass", start |-> f, flt |-> f, calls |-> <<>>]

\* setAlpha(a)
ASetAlpha ==
    /\ Len(bt.calls) < MaxSetAlpha
    /\ \E a \in Alphas :
        bt' = [bt EXCEPT !.flt = LowPassSetAlpha(bt.flt, a),
                         !.calls = Append(@, a)]
    /\ UNCHANGED <<filterVars, chainVars, fftVars, spectralVars, streamVars,
                   dspVars, threadVars>>

\* process(x) on a filter that holds no output yet (one sample per reset
\* keeps the exact rationals small)
AProcess ==
    /\ bt.flt.prevOut = QInt(0)
    /\ \E x \in Samples :
        bt' = [bt EXCEPT !.flt = LowPassProcess(bt.flt, x).f]
    /\ UNCHANGED <<filterVars, chainVars, fftVars, spectralVars, streamVars,
                   dspVars, threadVars>>

\* reset() at any point between them
AReset ==
    /\ bt' = [bt EXCEPT !.flt = LowPassReset(bt.flt)]
    /\ UNCHANGED <<filterVars, chainVars, fftVars, spectralVars, streamVars,
                   dspVars, threadVars>>

-----------------------------------------------------------------------------
(* Specifications *)

\* one filter object and its callers
InitFilter == FilterStart /\ ChainIdle /\ FFTIdle /\ SpectralIdle /\ StreamIdle
        /\ DspIdle /\ ThreadIdle /\ BatchIdle

NextFilter ==
    \/ FProcess
    \/ FProcessBatch
    \/ FReset
    \/ FSetWindowSize
    \/ FPredict

SpecFilter == InitFilter /\ [][NextFilter]_vars

\* a RealTimeProcessor and the holders of its filters
Init == ChainStart /\ FilterIdle /\ FFTIdle /\ SpectralIdle /\ StreamIdle
        /\ DspIdle /\ ThreadIdle /\ BatchIdle

Next ==
    \/ CAddFilter
    \/ CClearFilters
    \/ CProcessSample
    \/ CProcessBuffer
    \/ CReset
    \/ PSetWindowSize
    \/ PProcessBatch

Spec == Init /\ [][Next]_vars

\* callers of the size helpers of FFT
InitSize == FFTIdle /\ FilterIdle /\ ChainIdle /\ SpectralIdle /\ StreamIdle
        /\ DspIdle /\ ThreadIdle /\ BatchIdle

NextSize ==
    \/ FFTIsValidSize
    \/ FFTNextPowerOf2
    \/ FFTNextPowerOf2Wide

SpecSize == InitSize /\ [][NextSize]_vars

\* callers of the FFT entry points
InitFFT == FFTIdle /\ FilterIdle /\ ChainIdle /\ SpectralIdle /\ StreamIdle
        /\ DspIdle /\ ThreadIdle /\ BatchIdle

NextFFT ==
    \/ FFTForward
    \/ FFTForwardComplex
    \/ FFTInverse
    \/ FFTInverseComplex
    \/ FFTInverseOfForward
    \/ FFTRadix2

SpecFFT == InitFFT /\ [][NextFFT]_vars

\* callers of SpectralAnalysis
InitSpectral == SpectralIdle /\ FilterIdle /\ ChainIdle /\ FFTIdle /\ StreamIdle
        /\ DspIdle /\ ThreadIdle /\ BatchIdle

NextSpectral ==
    \/ SAFindPeakFrequency
    \/ SAFindPeaks
    \/ SAToneCentroid
    \/ SACentroid

SpecSpectral == InitSpectral /\ [][NextSpectral]_vars

\* a RealTimeFFT fed a stream in batches
InitStream == StreamStart /\ FilterIdle /\ ChainIdle /\ FFTIdle /\ SpectralIdle
        /\ DspIdle /\ ThreadIdle /\ BatchIdle

NextStream ==
    \/ RTProcessSamples
    \/ RTReset

SpecStream == InitStream /\ [][NextStream]_vars

\* one filter object under scalar and batch process calls
InitBatch == BatchStart /\ FilterIdle /\ ChainIdle /\ FFTIdle /\ SpectralIdle
        /\ StreamIdle /\ DspIdle /\ ThreadIdle

NextBatch ==
    \/ BProcess
    \/ BProcessBatch

SpecBatch == InitBatch /\ [][NextBatch]_vars

\* one LowPassFilter under setAlpha, process and reset
InitAlpha == AlphaStart /\ FilterIdle /\ ChainIdle /\ FFTIdle /\ SpectralIdle
        /\ StreamIdle /\ DspIdle /\ ThreadIdle

NextAlpha ==
    \/ ASetAlpha
    \/ AProcess
    \/ AReset

SpecAlpha == InitAlpha /\ [][NextAlpha]_vars

\* callers of the correlation functions
InitDsp == DspIdle /\ FilterIdle /\ ChainIdle /\ FFTIdle /\ SpectralIdle
        /\ StreamIdle /\ ThreadIdle /\ BatchIdle

NextDsp ==
    \/ DspCrossCorrelation
    \/ DspAutoCorrelation

SpecDsp == InitDsp /\ [][NextDsp]_vars

\* two threads calling two RealTimeProcessors under one mutex per processor
InitThreads == ThreadStart /\ FilterIdle /\ ChainIdle /\ FFTIdle /\ SpectralIdle
        /\ StreamIdle /\ DspIdle /\ BatchIdle

NextThreads ==
    \/ TLock
    \/ TAddFilter
    \/ TProcessSample
    \/ TProcessBuffer
    \/ TReset
    \/ TEnterFilter
    \/ TLeaveFilter
    \/ TLoopEnd
    \/ TUnlock

SpecThreads == InitThreads /\ [][NextThreads]_vars

-----------------------------------------------------------------------------
(* Properties of the RealTimeProcessor *)

Front(s) == SubSeq(s, 1, Len(s) - 1)

\* the pool after calling processSample on each element of s in turn
RECURSIVE ScalarState(_, _, _)
ScalarState(p, chain, s) ==
    IF s = <<>> THEN p
    ELSE ProcessSample(ScalarState(p, chain, Front(s)), chain, s[Len(s)]).pool

\* what the i-th of those processSample calls returns
ScalarOut(p, chain, s, i) ==
    ProcessSample(ScalarState(p, chain, SubSeq(s, 1, i - 1)), chain, s[i]).out

\* C1: processBuffer(seq) returns what processSample returns for each
\* element of seq in order from the same state, and leaves every filter in
\* the state that loop leaves it in; an empty chain returns its input
C1_BatchIsScalarLoop ==
    [][cLast'.op = "processBuffer" =>
         /\ Len(cLast'.val) = Len(cLast'.arg)
         /\ \A i \in 1..Len(cLast'.arg) :
                cLast'.val[i] = ScalarOut(pool, m_filters, cLast'.arg, i)
         /\ pool' = ScalarState(pool, m_filters, cLast'.arg)
         /\ m_filters = <<>> => cLast'.val = cLast'.arg]_vars

C1_Witness ==
    /\ cLast.op = "processBuffer"
    /\ Len(cLast.arg) = 2
    /\ cLast.arg[1] # cLast.arg[2]
    /\ Len(m_filters) = 2
    /\ m_filters[1] # m_filters[2]
    /\ pool[2].windowSize = 3

RECURSIVE SumOrders(_, _)
SumOrders(p, chain) ==
    IF chain = <<>> THEN 0 ELSE GetOrder(p[chain[1]]) + SumOrders(p, Tail(chain))

\* C2: getLatency() is the sum of getOrder() over the filters in the chain
C2_LatencyIsSumOfOrders == m_latency = SumOrders(pool, m_filters)

\* C10: a batch call with an empty sequence gives the caller an error
C10_EmptyBatchIsError ==
    (cLast.op \in {"processBuffer", "process"} /\ cLast.arg = <<>>) => ~cLast.ok

-----------------------------------------------------------------------------
(* Properties of the FFT entry points *)

IsPowerOf2(n) == \E e \in 0..30 : n = 2^e

\* the input of the last forward call as complex numbers, zero-padded to n
Padded(input, n) ==
    [i \in 1..n |->
        IF i > Len(input) THEN CZero
        ELSE IF fftCall.op = "forward" THEN Complex(input[i]) ELSE input[i]]

RECURSIVE DFTSum(_, _, _, _)
\* sum over m = n..N-1 of x[m] * exp(sign*2*pi*i*k*m/N), sign -1 for step 1
\* and +1 for step -1
DFTSum(x, k, n, step) ==
    LET N == Len(x)
        e == ((FieldOrder \div N) * k * n) % FieldOrder
    IN  IF n >= N THEN CZero
        ELSE CAdd(CMul(x[n + 1], Unit(IF step = 1 THEN e
                                      ELSE (FieldOrder - e) % FieldOrder)),
                  DFTSum(x, k, n + 1, step))

\* X[k] = sum over n of x[n] * exp(-2*pi*i*k*n/N)
DFT(x, k) == DFTSum(x, k, 0, 1)

\* x[n] = (1/N) * sum over k of X[k] * exp(+2*pi*i*k*n/N)
IDFT(x, n) == CMul(DFTSum(x, n, 0, -1), Complex(<<1, Len(x)>>))

\* C6: forward of a non-empty input of length L succeeds with size N =
\* nextPowerOf2(L), the smallest power of two >= L; data holds the N bins of
\* the zero-padded input and frequencyResolution is sampleRate/N
C6_ForwardPads ==
    (fftCall.op \in {"forward", "forwardComplex"} /\ fftCall.input # <<>>) =>
        LET L == Len(fftCall.input)
            r == fftCall.res
            N == r.val.size
        IN  /\ r.ok
            /\ N = NextPowerOf2(L)
            /\ IsPowerOf2(N) /\ N >= 1 /\ N >= L
            /\ \A m \in L..(N - 1) : ~IsPowerOf2(m)
            /\ Len(r.val.data) = N
            /\ \A k \in 0..(N - 1) :
                   r.val.data[k + 1] = DFT(Padded(fftCall.input, N), k)
            /\ QMul(r.val.frequencyResolution, QInt(N)) = fftCall.sampleRate

C6_Witness ==
    /\ fftCall.op = "forward"
    /\ Len(fftCall.input) = 3
    /\ fftCall.input[1] # fftCall.input[3]
    /\ fftCall.res.ok
    /\ fftCall.res.val.size = 4
    /\ fftCall.sampleRate = QInt(1000)

\* C7: inverse and inverseComplex of a non-empty input whose length L is no
\* power of two return the inverse transform of the input zero-padded to
\* nextPowerOf2(L)
C7_InversePads ==
    (/\ fftCall.op \in {"inverse", "inverseComplex"}
     /\ fftCall.input # <<>>
     /\ ~IsPowerOf2(Len(fftCall.input))) =>
        LET N == NextPowerOf2(Len(fftCall.input))
            x == Padded(fftCall.input, N)
            r == fftCall.res
        IN  /\ r.ok
            /\ Len(r.val) = N
            /\ \A n \in 0..(N - 1) :
                   r.val[n + 1] = IF fftCall.op = "inverse" THEN Real(IDFT(x, n))
                                  ELSE IDFT(x, n)

\* C8: inverse(forward(x).data) has length nextPowerOf2(len(x)) and is x
\* right-padded with zeros
C8_RoundTrip ==
    (fftCall.op = "inverse" /\ fftCall.of # <<>>) =>
        LET x == fftCall.of
            r == fftCall.res
        IN  /\ r.ok
            /\ Len(r.val) = NextPowerOf2(Len(x))
            /\ \A i \in 1..Len(r.val) :
                   r.val[i] = Complex(IF i <= Len(x) THEN x[i] ELSE QInt(0))

C8_Witness ==
    /\ fftCall.op = "inverse"
    /\ Len(fftCall.of) = 3
    /\ fftCall.of[1] # fftCall.of[2]
    /\ fftCall.of[3] # QInt(0)
    /\ Len(fftCall.res.val) = 4

\* C9: every entry point answers an empty input with InvalidArgument
C9_EmptyInputIsError ==
    (/\ fftCall.op \in {"forward", "forwardComplex", "inverse", "inverseComplex"}
     /\ fftCall.input = <<>>) =>
        fftCall.res = Error("InvalidArgument")

C9_Witness ==
    /\ fftCall.op = "inverse"
    /\ fftCall.input = <<>>
    /\ ~fftCall.res.ok

\* C19: isValidSize(n) holds exactly for the powers of two; nextPowerOf2(0)
\* is 1 and nextPowerOf2(n), 1 <= n <= 1024, is the smallest power of two
\* >= n, hence n itself when isValidSize(n)
C19_PowerOfTwoHelpers ==
    LET n == fftCall.input
        v == fftCall.res.val
    IN  /\ fftCall.op = "isValidSize" => (v <=> IsPowerOf2(n))
        /\ fftCall.op = "nextPowerOf2" =>
               /\ n = 0 => v = 1
               /\ n >= 1 =>
                      /\ IsPowerOf2(v)
                      /\ v >= n
                      /\ \A m \in n..(v - 1) : ~IsPowerOf2(m)
               /\ IsValidSize(n) => v = n

C19_Witness ==
    /\ fftCall.op = "nextPowerOf2"
    /\ fftCall.input = 513
    /\ fftCall.res.val = 1024

-----------------------------------------------------------------------------
(* Properties of SpectralAnalysis *)

\* |z|^2 as a rational; magnitudes are compared on it
NormSq(z) == LET sq == CMul(z, Conj(z)) IN <<sq.c[1], sq.d>>

BinFrequency(r, i) == QMul(QInt(i), r.frequencyResolution)

\* the 0-based indexes of the bins strictly above both neighbours
LocalMaxBins(r) ==
    {i \in 1..(Len(r.data) - 2) :
        /\ QBelow(NormSq(r.data[i]), NormSq(r.data[i + 1]))
        /\ QBelow(NormSq(r.data[i + 2]), NormSq(r.data[i + 1]))}

\* C11: findPeaks returns at most numPeaks frequencies, ascending, each that
\* of a strict local maximum, pairwise at least minDistance apart, and a
\* local maximum is left out only if numPeaks peaks at least as strong were
\* accepted or an accepted peak at least as strong lies within minDistance
C11_FindPeaksGreedy ==
    saCall.op = "findPeaks" =>
        LET r == saCall.result
            numPeaks == saCall.args[1]
            minDistance == saCall.args[2]
            peaks == LocalMaxBins(r)
            AtLeastAsStrong(a, b) ==
                QAtMost(NormSq(r.data[b + 1]), NormSq(r.data[a + 1]))
            Near(a, b) ==
                QBelow(QAbs(QSub(BinFrequency(r, a), BinFrequency(r, b))), minDistance)
        IN  /\ saCall.res.ok
            /\ LET out == saCall.res.val
                   accepted == {i \in peaks : \E j \in 1..Len(out) :
                                                  out[j] = BinFrequency(r, i)}
               IN  /\ Len(out) <= numPeaks
                   /\ \A j \in 1..(Len(out) - 1) : QBelow(out[j], out[j + 1])
                   /\ \A j \in 1..Len(out) :
                          \E i \in peaks : out[j] = BinFrequency(r, i)
                   /\ \A a, b \in accepted : a # b => ~Near(a, b)
                   /\ \A b \in peaks \ accepted :
                          \/ Cardinality({a \in accepted : AtLeastAsStrong(a, b)})
                                 >= numPeaks
                          \/ \E a \in accepted : AtLeastAsStrong(a, b) /\ Near(a, b)

\* C12: findPeakFrequency returns the frequency of the lowest bin of maximal
\* magnitude among the bins in [minFreq, maxFreq] (maxFreq = sampleRate/2
\* when omitted), DataError when no bin in the range has a nonzero
\* magnitude, and InvalidArgument when the result has no data
C12_PeakFrequency ==
    saCall.op = "findPeakFrequency" =>
        LET r == saCall.result
            minFreq == saCall.args[1]
            maxFreq == IF saCall.args[2] = Omitted THEN QDiv(r.sampleRate, QInt(2))
                       ELSE saCall.args[2]
            inRange == {i \in 0..(Len(r.data) - 1) :
                           /\ QAtMost(minFreq, BinFrequency(r, i))
                           /\ QAtMost(BinFrequency(r, i), maxFreq)}
            nonzero == {i \in inRange : r.data[i + 1] # CZero}
        IN  IF r.data = <<>> THEN saCall.res = Error("InvalidArgument")
            ELSE IF nonzero = {} THEN saCall.res = Error("DataError")
            ELSE /\ saCall.res.ok
                 /\ \E i \in inRange :
                        /\ saCall.res.val = BinFrequency(r, i)
                        /\ \A j \in inRange :
                               QAtMost(NormSq(r.data[j + 1]), NormSq(r.data[i + 1]))
                        /\ \A j \in inRange :
                               j < i => QBelow(NormSq(r.data[j + 1]),
                                               NormSq(r.data[i + 1]))

C12_Witness ==
    /\ saCall.op = "findPeakFrequency"
    /\ Len(saCall.result.data) = 5
    /\ saCall.args = <<QInt(1), QInt(2)>>
    /\ saCall.result.data[2] = CMul(Complex(QInt(-2)), CI)
    /\ saCall.result.data[4] = saCall.result.data[5]
    /\ saCall.result.data[4] = CMul(Complex(QInt(-2)), CI)
    /\ saCall.res = Ok(<<3, 2>>)

\* C13: the spectral centroid of the transform of a pure sine of frequency f
\* lies within one bin width sampleRate/N of f
C13_CentroidNearTone ==
    (saCall.op = "calculateSpectralCentroid" /\ saCall.tone # <<>>) =>
        QAtMost(QAbs(QSub(saCall.res.val, saCall.tone)),
                saCall.result.frequencyResolution)

-----------------------------------------------------------------------------
(* Properties of RealTimeFFT *)

\* how many windows of n samples, hop apart, fit in the first len samples
WindowsIn(len, n, hop) == IF len < n THEN 0 ELSE (len - n) \div hop + 1

\* in every state of a RealTimeFFT: the windows the delivered samples
\* complete have all been emitted, each the transform of its slice
StreamWindowsEmitted ==
    rt.kind = "RealTimeFFT" =>
        LET n == rt.fftSize
            hop == rt.hopSize
            exact == QMul(QInt(n), QSub(QInt(1), rt.overlapFactor))
            count == WindowsIn(Len(rt.stream), n, hop)
        IN  /\ hop >= 1
            /\ \/ QAtMost(QAbs(QSub(QInt(hop), exact)), Half)
               \/ hop = 1 /\ QBelow(exact, QInt(1))
            /\ Len(rt.emitted) = count
            /\ \A k \in 0..(count - 1) :
                   LET x == [i \in 1..n |-> Complex(rt.stream[k * hop + i])]
                       res == rt.emitted[k + 1]
                   IN  /\ res.size = n
                       /\ res.sampleRate = rt.sampleRate
                       /\ QMul(res.frequencyResolution, QInt(n)) = rt.sampleRate
                       /\ Len(res.data) = n
                       /\ \A b \in 0..(n - 1) : res.data[b + 1] = DFT(x, b)
            /\ Len(rt.buffer) < n
            /\ rt.buffer = SubSeq(rt.stream, count * hop + 1, Len(rt.stream))

\* a processSamples call returns the results whose last sample it delivered,
\* after those emitted before
StreamCallReturns ==
    (rt.kind = "RealTimeFFT" /\ Len(rt'.stream) >= Len(rt.stream) /\ rt' # rt) =>
        /\ rt'.returned = WindowsIn(Len(rt'.stream), rt.fftSize, rt.hopSize)
                             - WindowsIn(Len(rt.stream), rt.fftSize, rt.hopSize)
        /\ SubSeq(rt'.emitted, 1, Len(rt.emitted)) = rt.emitted

\* C20: with hopSize = fftSize*(1-overlapFactor) rounded to an integer >= 1,
\* the k-th result emitted (k = 0, 1, ...) is the transform of stream samples
\* [k*hopSize, k*hopSize + fftSize), whatever the batches; it is emitted by
\* the call that delivers its last sample, and after each call fewer than
\* fftSize samples remain buffered
C20_StreamWindows == []StreamWindowsEmitted /\ [][StreamCallReturns]_vars

C20_Witness ==
    /\ rt.kind = "RealTimeFFT"
    /\ rt.fftSize = 4
    /\ rt.hopSize = 2
    /\ Len(rt.emitted) = 2
    /\ rt.returned = 2
    /\ rt.stream[1] # rt.stream[2]
    /\ rt.emitted[1] # rt.emitted[2]

-----------------------------------------------------------------------------
(* The running sum of MovingAverageFilter *)

\* C29: in every reachable state of a MovingAverageFilter, after any sequence
\* of process, reset and setWindowSize calls, the running sum m_sum equals
\* the sum of all slots of the circular buffer (slots not yet written hold 0)
C29_SumIsSlotSum ==
    flt.kind = "MovingAverage" =>
        /\ Len(flt.buffer) = flt.windowSize
        /\ flt.sum = QSum(flt.buffer)

\* a window that has wrapped around, after an earlier reset, with a non-zero sum
C29_Witness ==
    /\ flt.kind = "MovingAverage"
    /\ fWasReset
    /\ flt.bufferFull
    /\ Len(fHist) > flt.windowSize
    /\ flt.sum # QInt(0)

-----------------------------------------------------------------------------
(* autoCorrelation *)

\* the correlation of x with itself at the given lag: sum of x[n] * x[n + lag]
RECURSIVE LagSum(_, _, _)
LagSum(x, lag, n) ==
    IF n > Len(x) THEN QInt(0)
    ELSE QAdd(IF n + lag >= 1 /\ n + lag <= Len(x)
              THEN QMul(x[n], x[n + lag]) ELSE QInt(0),
              LagSum(x, lag, n + 1))

\* C27: autoCorrelation(x) equals crossCorrelation(x, x); for a non-empty x
\* it has length 2*len(x)-1, is symmetric about its centre index, and its
\* centre (zero-lag) value is the sum of x[n]^2; for an empty x it is empty
C27_AutoCorrelation ==
    dspCall.op = "autoCorrelation" =>
        LET x == dspCall.x
            r == dspCall.res
            n == Len(x)
        IN  /\ r = CrossCorrelation(x, x)
            /\ n = 0 => r = <<>>
            /\ n > 0 =>
                /\ Len(r) = 2 * n - 1
                /\ \A i \in 1..Len(r) : r[i] = r[Len(r) + 1 - i]
                /\ r[n] = LagSum(x, 0, 1)

-----------------------------------------------------------------------------
(* One mutex per processor *)

\* every call of a thread is made while it holds the mutex of the processor
LockDiscipline ==
    \A t \in Threads :
        thread[t].pc # "idle" => mutexOwner[thread[t].proc] = t

\* C23: if every call on a RealTimeProcessor is made while holding that
\* processor's own mutex, no filter's process or reset runs concurrently with
\* another call on the same filter, whatever chains addFilter has built,
\* a filter added to more than one processor included
C23_NoConcurrentFilterCall ==
    LockDiscipline =>
        \A t \in Threads, u \in Threads :
            (/\ t # u
             /\ thread[t].pc = "in"
             /\ thread[u].pc = "in"
             /\ CurrentFilter(t) = CurrentFilter(u))
            => FilterCall(thread[t].op) \notin {"process", "reset"}

-----------------------------------------------------------------------------
(* The batch overload of Filter::process *)

\* the filter after process(sample) was called on each element of s in turn
RECURSIVE AfterScalarCalls(_, _)
AfterScalarCalls(f, s) ==
    IF s = <<>> THEN f
    ELSE Process(AfterScalarCalls(f, Front(s)), s[Len(s)]).f

\* the filter as call i left it
AfterCall(i) == IF i = Len(bt.calls) THEN bt.flt ELSE bt.calls[i + 1].before

\* C21: for every Filter subclass, process(sequence) returns one output per
\* input sample, in input order, each equal to what process(sample) would
\* return at that point, and state carries across calls: process(a) followed
\* by process(b) returns the same outputs, and leaves the same state, as one
\* call process(a ++ b) from the same starting state
C21_BatchIsScalarAndCarriesState ==
    bt.kind = "filter" =>
        /\ \A i \in 1..Len(bt.calls) :
            LET c == bt.calls[i]
            IN  c.op = "batch" =>
                /\ Len(c.out) = Len(c.input)
                /\ \A j \in 1..Len(c.input) :
                       c.out[j] =
                           Process(AfterScalarCalls(c.before,
                                                    SubSeq(c.input, 1, j - 1)),
                                   c.input[j]).out
                /\ AfterCall(i) = AfterScalarCalls(c.before, c.input)
        /\ \A i \in 1..(Len(bt.calls) - 1) :
            LET a == bt.calls[i]
                b == bt.calls[i + 1]
                one == ProcessBatch(a.before, a.input \o b.input)
            IN  /\ one.out = a.out \o b.out
                /\ one.f = AfterCall(i + 1)

\* a band-pass filter processed two batches of two samples, one after the other
C21_Witness ==
    /\ bt.kind = "filter"
    /\ bt.ctor.ctor = "BandPassFilter"
    /\ Len(bt.calls) = 2
    /\ \A i \in 1..2 : bt.calls[i].op = "batch" /\ Len(bt.calls[i].input) = 2
    /\ bt.calls[2].before # Construct(bt.ctor)
    /\ bt.calls[1].out # bt.calls[2].out

-----------------------------------------------------------------------------
(* BandPassFilter as a cascade *)

\* a HighPassFilter feeding a LowPassFilter: the pair after the samples of s
RECURSIVE CascadeState(_, _, _)
CascadeState(hp, lp, s) ==
    IF s = <<>> THEN [hp |-> hp, lp |-> lp]
    ELSE LET c == CascadeState(hp, lp, Front(s))
             h == HighPassProcess(c.hp, s[Len(s)])
         IN  [hp |-> h.f, lp |-> LowPassProcess(c.lp, h.out).f]

\* the output of the cascade for sample i of s
CascadeOut(hp, lp, s, i) ==
    LET c == CascadeState(hp, lp, SubSeq(s, 1, i - 1))
    IN  LowPassProcess(c.lp, HighPassProcess(c.hp, s[i]).out).out

\* C24: BandPassFilter(low, high, order).process(x) equals feeding x to a
\* HighPassFilter(low, order/2) and its output to a LowPassFilter(high,
\* order/2), in that order, both sub-filters keeping their state across
\* calls; if low >= high (decay(low) <= decay(high)) the cutoffs are swapped
\* before the sub-filters are built; getOrder() returns the requested order
C24_BandPassIsCascade ==
    fCtor.ctor = "BandPassFilter" =>
        LET swap == QAtMost(fCtor.args[1], fCtor.args[2])
            low == IF swap THEN fCtor.args[2] ELSE fCtor.args[1]
            high == IF swap THEN fCtor.args[1] ELSE fCtor.args[2]
            order == fCtor.args[3]
            hp == HighPassFilterCutoff(low, order \div 2)
            lp == LowPassFilterCutoff(high, order \div 2)
        IN  /\ GetOrder(flt) = order
            /\ Len(fOuts) = Len(fHist)
            /\ \A i \in 1..Len(fHist) : fOuts[i] = CascadeOut(hp, lp, fHist, i)

\* a band-pass filter built from cutoffs in the wrong order, of odd order,
\* replaying samples after a reset
C24_Witness ==
    /\ fCtor = [ctor |-> "BandPassFilter", args |-> <<Quarter, Half, 3>>]
    /\ fWasReset
    /\ Len(fHist) >= 3
    /\ fOuts[3] # fOuts[2]

-----------------------------------------------------------------------------
(* RealTimeProcessor::reset *)

\* a freshly constructed filter with the parameters of f
Fresh(f) ==
    CASE f.kind = "LowPass" -> LowPassFilter(f.alpha)
      [] f.kind = "MovingAverage" -> MovingAverageFilter(f.windowSize)

\* the pool with every member of the chain replaced by a fresh filter
FreshPool(p, chain) ==
    [f \in FilterIds |-> IF f \in Range(chain) THEN Fresh(p[f]) ELSE p[f]]

\* C22: RealTimeProcessor::reset() resets the state of every member filter
\* and leaves the chain's membership, the filters' order in the chain and the
\* tracked latency unchanged (filters outside the chain are not touched), so
\* that the processor afterwards produces the same outputs as the same chain
\* of freshly constructed filters
C22_ResetGivesFreshChain ==
    [][cLast'.op = "reset" =>
         /\ m_filters' = m_filters
         /\ m_latency' = m_latency
         /\ pool' = FreshPool(pool, m_filters)
         /\ \A input \in Batches :
                ProcessBuffer(pool', m_filters', input).out =
                    ProcessBuffer(FreshPool(pool, m_filters), m_filters,
                                  input).out]_vars

\* after reset() of a chain of two filters that had processed samples
C22_Witness ==
    /\ cLast.op = "reset"
    /\ Len(m_filters) = 2
    /\ m_filters[1] # m_filters[2]
    /\ cCount > 0
    /\ m_latency > 0

-----------------------------------------------------------------------------
(* radix2FFT *)

\* the index whose pattern of the given number of bits is the reverse of i's
RECURSIVE ReversedIndex(_, _)
ReversedIndex(i, bits) ==
    IF bits = 0 THEN 0
    ELSE (i % 2) * 2^(bits - 1) + ReversedIndex(i \div 2, bits - 1)

Log2(n) == CHOOSE e \in 0..30 : n = 2^e

\* C25: for every power-of-two length N, radix2FFT (the bit-reversal
\* permutation, which moves the element at index i to the index whose
\* log2(N)-bit pattern is the reverse of i, followed by the butterfly stages)
\* computes X[k] = sum over n of x[n]*exp(-2*pi*i*k*n/N); with inverse = true
\* it uses the conjugate twiddles and scales by 1/N; for N = 1 the data is
\* returned unchanged
C25_Radix2IsDFT ==
    (fftCall.op = "radix2FFT" /\ IsPowerOf2(Len(fftCall.input))) =>
        LET x == fftCall.input
            N == Len(x)
            permuted == BitReverse(x)
        IN  /\ Len(fftCall.res) = N
            /\ \A i \in 0..(N - 1) :
                   permuted[ReversedIndex(i, Log2(N)) + 1] = x[i + 1]
            /\ \A k \in 0..(N - 1) :
                   fftCall.res[k + 1] = IF fftCall.inverse THEN IDFT(x, k)
                                        ELSE DFT(x, k)
            /\ N = 1 => fftCall.res = x

\* an inverse transform of eight samples, none of them zero
C25_Witness ==
    /\ fftCall.op = "radix2FFT"
    /\ fftCall.inverse
    /\ Len(fftCall.input) = 8
    /\ \A i \in 1..8 : fftCall.input[i] # CZero
    /\ fftCall.res # fftCall.input
    /\ fftCall.res[2] # fftCall.res[8]

-----------------------------------------------------------------------------
(* nextPowerOf2 over all of uint32_t *)

\* a >= b as unsigned 32-bit numbers
U32Geq(a, b) ==
    \/ a = b
    \/ \E i \in BitIndex :
          /\ a[i] = 1
          /\ b[i] = 0
          /\ \A j \in (i + 1)..31 : a[j] = b[j]

\* exactly one bit is set
IsPowerOf2Bits(b) == Cardinality({i \in BitIndex : b[i] = 1}) = 1

\* C26: for every 32-bit unsigned n, n above 2^31 included, nextPowerOf2(n)
\* (arithmetic modulo 2^32) is a power of two greater than or equal to n, so
\* that isValidSize(nextPowerOf2(n)) holds
C26_NextPowerOf2AllSizes ==
    /\ fftCall.op = "nextPowerOf2" =>
           /\ IsPowerOf2(fftCall.res.val)
           /\ fftCall.res.val >= fftCall.input
           /\ IsValidSize(fftCall.res.val)
    /\ fftCall.op = "nextPowerOf2Wide" =>
           /\ IsPowerOf2Bits(fftCall.res.val)
           /\ U32Geq(fftCall.res.val, fftCall.input)
           /\ IsValidSizeBits(fftCall.res.val)

-----------------------------------------------------------------------------
(* Memory safety of findPeaks *)

\* C28: findPeaks never reads outside the magnitude and frequency arrays of
\* its FFTResult (no outcome of an out-of-bounds read arises), and returns an
\* empty list when the result has fewer than 3 bins, a result whose data is
\* empty included
C28_FindPeaksInBounds ==
    saCall.op = "findPeaks" =>
        /\ saCall.res.ok
        /\ Len(saCall.result.data) < 3 => saCall.res.val = <<>>

-----------------------------------------------------------------------------
(* The coefficient of LowPassFilter *)

\* C30: in every reachable state of a LowPassFilter, whichever constructor
\* built it and after any setAlpha calls, getAlpha() lies in [0.001, 0.999];
\* hence LowPassFilter(a) and setAlpha(a) on an existing filter yield the
\* same coefficient for every a
C30_AlphaInRange ==
    bt.kind = "lowpass" =>
        /\ QAtMost(AlphaMin, LowPassGetAlpha(bt.flt))
        /\ QAtMost(LowPassGetAlpha(bt.flt), AlphaMax)
        /\ bt.calls # <<>> =>
               LowPassGetAlpha(bt.flt) =
                   LowPassGetAlpha(LowPassFilter(bt.calls[Len(bt.calls)]))

=============================================================================
